---- MODULE Spec2Model ----
(***************************************************************************)
(* A model of sbm (Simple Bookmark Manager), src/sbm.c with src/config.h.  *)
(*                                                                         *)
(* Every run of the program is one invocation: main reads the savefile     *)
(* (ReadJSON), runs one command (ProcessCommand) and rewrites the savefile *)
(* (WriteJSON).  A call of exit() inside a command ends the invocation     *)
(* before WriteJSON.  The model keeps the savefile between invocations and *)
(* the Core that the last invocation held in memory.                       *)
(*                                                                         *)
(* C strings are sequences of one-character strings.  C arrays are         *)
(* sequences whose element i+1 is the C element i.  The savefile is kept   *)
(* as its lines: one record for each entry that WriteJSON printed, with    *)
(* the key and the fields as the text printed and with the separator that  *)
(* followed the entry.                                                     *)
(***************************************************************************)
EXTENDS Integers, Sequences, FiniteSets, TLC

VARIABLES
    file,      \* the savefile ~/.config/sbm/data.json
    pc,        \* "shell": no process; "ended": main has run and not yet left
    prevFile,  \* the savefile as it was when the invocation started
    loaded,    \* the Core that ReadJSON returned to the invocation
    core,      \* the Core in memory at the end of the invocation
    last,      \* the invocation: its InputArgs, its clock, how it ended
    hwm        \* the largest row ID and tag ID assigned so far

vars == <<file, pc, prevFile, loaded, core, last, hwm>>

(***************************************************************************)
(* config.h                                                                *)
(***************************************************************************)
ROW_TAG_C == 8
TITLE_S == 64
COMMENT_S == 256
S_ADDR_S == 256
TAG_NAME_S == 32

(***************************************************************************)
(* Bounds of the model.                                                    *)
(***************************************************************************)
MaxRows == 2          \* add is offered while the savefile holds fewer rows
MaxTags == 2          \* tag add is offered while it holds fewer tags
MaxId == 2            \* and while every ID of the savefile is below MaxId
MaxGarbageRows == 1   \* a spare Tag that is not zero: while no more rows
MaxTitleLen == 4      \* the titles of the rows that list searches
MaxTermLen == 3       \* the search terms of list

(***************************************************************************)
(* Characters and the libc functions the program calls.                    *)
(***************************************************************************)
Digits == <<"0", "1", "2", "3", "4", "5", "6", "7", "8", "9">>

LowerCase == <<"a", "b", "c", "d", "e", "f", "g", "h", "i", "j", "k", "l", "m",
               "n", "o", "p", "q", "r", "s", "t", "u", "v", "w", "x", "y", "z">>

UpperCase == <<"A", "B", "C", "D", "E", "F", "G", "H", "I", "J", "K", "L", "M",
               "N", "O", "P", "Q", "R", "S", "T", "U", "V", "W", "X", "Y", "Z">>

\* A char* that is NULL: no C string holds this element.
NULL == <<"(null)">>

Min(a, b) == IF a < b THEN a ELSE b

Max(a, b) == IF a > b THEN a ELSE b

\* s[i] of a C string, the terminating NUL (written "") included.
CharAt(s, i) == IF i < Len(s) THEN s[i + 1] ELSE ""

isdigit(c) == \E i \in 1..10 : Digits[i] = c

DigitVal(c) == (CHOOSE i \in 1..10 : Digits[i] = c) - 1

toupper(c) ==
    IF \E i \in 1..26 : LowerCase[i] = c
    THEN UpperCase[CHOOSE i \in 1..26 : LowerCase[i] = c]
    ELSE c

RECURSIVE AtoiFrom(_, _, _)
AtoiFrom(s, i, acc) ==
    IF isdigit(CharAt(s, i))
    THEN AtoiFrom(s, i + 1, acc * 10 + DigitVal(CharAt(s, i)))
    ELSE acc

\* atoi of a string without sign or leading blanks: the value of its leading
\* digits, 0 when it has none.
atoi(s) == AtoiFrom(s, 0, 0)

RECURSIVE Itoa(_)
\* printf("%d") of a number >= 0.
Itoa(n) ==
    IF n < 10 THEN <<Digits[n + 1]>>
    ELSE Append(Itoa(n \div 10), Digits[(n % 10) + 1])

strlen(s) == Len(s)

\* strncpy(d, s, n) into a zeroed buffer d, read back as a C string.
strncpy(s, n) == SubSeq(s, 1, Min(n, Len(s)))

\* strcmp(a, b) == 0
strcmp0(a, b) == a = b

\* strstr(s, " ") != NULL
HasSpace(s) == \E i \in 1..Len(s) : s[i] = " "

RECURSIVE StricmpFrom(_, _, _)
StricmpFrom(a, b, i) ==
    IF CharAt(a, i) # "" /\ toupper(CharAt(a, i)) = toupper(CharAt(b, i))
    THEN StricmpFrom(a, b, i + 1)
    ELSE IF CharAt(a, i) = CharAt(b, i) THEN 0 ELSE 1

\* The program's stricmp: 0 (false) for a NULL argument, else the difference
\* of the characters at which the loop stops; the model keeps 0 and not 0.
stricmp(a, b) ==
    IF a = NULL \/ b = NULL THEN 0 ELSE StricmpFrom(a, b, 0)

RECURSIVE SkipSpaces(_, _)
SkipSpaces(s, i) == IF CharAt(s, i) = " " THEN SkipSpaces(s, i + 1) ELSE i

RECURSIVE TokenEnd(_, _)
TokenEnd(s, i) ==
    IF CharAt(s, i) = "" \/ CharAt(s, i) = " " THEN i ELSE TokenEnd(s, i + 1)

RECURSIVE TokensFrom(_, _)
TokensFrom(s, i) ==
    LET b == SkipSpaces(s, i)
        e == TokenEnd(s, b)
    IN  IF b >= Len(s) THEN <<>>
        ELSE <<SubSeq(s, b + 1, e)>> \o TokensFrom(s, e + 1)

\* The tokens strtok(s, " "), strtok(0, " "), ... returns until NULL.
strtok(s) == TokensFrom(s, 0)

\* The buffer s read as a C string once strtok(s, " ") has run: strtok has
\* written a NUL over the separator that ends the first token.
AfterStrtok(s) == SubSeq(s, 1, TokenEnd(s, SkipSpaces(s, 0)))

(***************************************************************************)
(* The data of the program: struct URL, Row, Tag, Table, Tags, Core.       *)
(***************************************************************************)
\* address.l of a URL whose bytes were written through address.s: the two
\* share storage, so the pointer is made of the characters of the URL.
BadPtr == <<"(wild)">>

URL(s) == [long_url |-> 0, s |-> s, l |-> BadPtr]

ZeroRow ==
    [id |-> 0, url |-> URL(<<>>), title |-> <<>>,
     tag_ids |-> [j \in 1..ROW_TAG_C |-> 0], comment |-> <<>>,
     last_updated |-> <<>>]

ZeroTag == [id |-> 0, name |-> <<>>]

\* memset(&result, 0, sizeof(Core)) with one zeroed Row and one zeroed Tag.
EmptyCore ==
    [table |-> [rows |-> <<ZeroRow>>, count |-> 0, next_UID |-> 1],
     tags |-> [tags |-> <<ZeroTag>>, count |-> 0, next_UID |-> 1]]

\* C element i of an array.
At(arr, i) == arr[i + 1]

(***************************************************************************)
(* The savefile.                                                           *)
(***************************************************************************)
NoFile == [exists |-> FALSE, tags |-> <<>>, rows |-> <<>>]

\* An encoder that prints every one of the first count entries, whatever
\* its id.
LiveUpToAll(arr, count) == 0..(count - 1)

\* The indices of the live entries among the first count of arr.
LiveUpTo(arr, count) == {i \in 0..(count - 1) : At(arr, i).id # 0}

RECURSIVE SeqOfSet(_)
\* The numbers of S in increasing order.
SeqOfSet(S) ==
    IF S = {} THEN <<>>
    ELSE LET m == CHOOSE x \in S : \A y \in S : x <= y
         IN  <<m>> \o SeqOfSet(S \ {m})

\* The text WriteJSON's first loop prints for tag i, with what follows it.
TagLine(t, i) ==
    [key |-> Itoa(At(t.tags, i).id), name |-> At(t.tags, i).name,
     comma |-> (i # t.count - 1)]

\* The text WriteJSON's second loop prints for row i, with what follows it.
RowLine(t, i) ==
    LET curr == At(t.rows, i)
    IN  [key |-> Itoa(curr.id),
         url |-> IF curr.url.long_url # 0 THEN curr.url.l ELSE curr.url.s,
         title |-> curr.title, comment |-> curr.comment,
         last_updated |-> curr.last_updated,
         tag_ids |-> [j \in 1..ROW_TAG_C |-> Itoa(curr.tag_ids[j])],
         comma |-> (i # t.count - 1)]

\* WriteJSON reads address.l of a row whose URL was written through address.s.
WildRead(c) ==
    \E i \in LiveUpTo(c.table.rows, c.table.count) :
        /\ At(c.table.rows, i).url.long_url # 0
        /\ At(c.table.rows, i).url.l = BadPtr

\* WriteJSON: the savefile it writes.  Both loops run over the first count
\* entries and skip those whose id is 0.
WriteJSON(c) ==
    LET ti == SeqOfSet(LiveUpTo(c.tags.tags, c.tags.count))
        ri == SeqOfSet(LiveUpTo(c.table.rows, c.table.count))
    IN  [exists |-> TRUE,
         tags |-> [k \in 1..Len(ti) |-> TagLine(c.tags, ti[k])],
         rows |-> [k \in 1..Len(ri) |-> RowLine(c.table, ri[k])]]

\* json_parse of a string value sbm printed with "%s": the text ends at the
\* first double quote.  The strings of the model hold no comma, bracket or
\* backslash, so a double quote inside one leaves text that is no JSON.
JsonStringOK(s) == \A i \in 1..Len(s) : s[i] # "\""

\* json_parse of the members of one object: a comma between two members and
\* none after the last (json_parse_flags_default).
JsonMembersOK(lines) == \A i \in 1..Len(lines) : lines[i].comma = (i < Len(lines))

\* json_parse(contents, contentsSize) != NULL
JsonParses(f) ==
    /\ JsonMembersOK(f.tags)
    /\ JsonMembersOK(f.rows)
    /\ \A i \in 1..Len(f.tags) : JsonStringOK(f.tags[i].name)
    /\ \A i \in 1..Len(f.rows) :
          /\ JsonStringOK(f.rows[i].url)
          /\ JsonStringOK(f.rows[i].title)
          /\ JsonStringOK(f.rows[i].comment)

RECURSIVE MaxOver(_, _, _)
\* The running Max(x.id, acc) of ReadJSON's loops.
MaxOver(arr, i, acc) ==
    IF i > Len(arr) THEN acc ELSE MaxOver(arr, i + 1, Max(arr[i].id, acc))

\* The Tag ReadJSON builds from one member of "tags".
ReadTag(line) ==
    [id |-> atoi(line.key),
     name |-> strncpy(line.name, Min(strlen(line.name), TAG_NAME_S - 1))]

\* comment[] lies right after tag_ids[] in struct Row: an unsigned int
\* written past tag_ids replaces the first bytes of the comment.
Clobbered(comment, spill) ==
    IF spill = <<>> THEN comment
    ELSE IF spill[1] = 0 THEN <<>> ELSE <<"(byte)">>

\* The asserts of ReadJSON's rows loop that a savefile which parses can
\* fail: the date and time have fewer than 20 characters, and the tag array
\* has a first element.
RowAsserts(line) ==
    strlen(line.last_updated) < 20 /\ Len(line.tag_ids) > 0

\* The Row ReadJSON builds from one member of "rows".  Its last loop writes
\* tag_ids[j] for every element of the tag array, however many there are:
\* slots the array does not reach stay 0, elements past ROW_TAG_C are
\* written over the comment.  What sscanf makes of the date and time only
\* decides whether "Could not parse date and time" is printed.
ReadRow(line) ==
    LET len == strlen(line.url)
    IN  [id |-> atoi(line.key),
         url |-> IF len > S_ADDR_S - 1
                 THEN [long_url |-> 1, s |-> <<>>, l |-> line.url]
                 ELSE URL(strncpy(line.url, Min(len, S_ADDR_S - 1))),
         title |-> strncpy(line.title, Min(TITLE_S - 1, strlen(line.title))),
         tag_ids |-> [j \in 1..ROW_TAG_C |->
                         IF j <= Len(line.tag_ids) THEN atoi(line.tag_ids[j])
                         ELSE 0],
         comment |-> Clobbered(strncpy(line.comment,
                                       Min(COMMENT_S - 1, strlen(line.comment))),
                               [j \in 1..(Len(line.tag_ids) - ROW_TAG_C) |->
                                   atoi(line.tag_ids[ROW_TAG_C + j])]),
         last_updated |-> strncpy(line.last_updated,
                                  Min(19, strlen(line.last_updated)))]

\* ReadJSON of a savefile that exists and parses.  Each array is allocated
\* with one element more than the file holds, and only the elements read from
\* the file are written: heap gives what the spare elements hold.
ReadJSON(f, heap) ==
    LET tg == [k \in 1..Len(f.tags) |-> ReadTag(f.tags[k])]
        rw == [k \in 1..Len(f.rows) |-> ReadRow(f.rows[k])]
    IN  [table |-> [rows |-> Append(rw, heap.row), count |-> Len(rw),
                    next_UID |-> MaxOver(rw, 1, 0) + 1],
         tags |-> [tags |-> Append(tg, heap.tag), count |-> Len(tg),
                   next_UID |-> MaxOver(tg, 1, 0) + 1]]

(***************************************************************************)
(* Helpers of ProcessCommand.                                              *)
(***************************************************************************)
\* How ProcessCommand ends: by returning to main, or inside a call of exit().
Return(c) == [core |-> c, exited |-> FALSE, why |-> "return"]

Exit(c, why) == [core |-> c, exited |-> TRUE, why |-> why]

\* The answer scanf("%c", &confirmation) reads: character pos of stdin.
Confirmed(env, pos) ==
    pos <= Len(env.stdin) /\ (env.stdin[pos] = "y" \/ env.stdin[pos] = "Y")

\* strcpyt(d, s, m, l): the C string left in d.
strcpyt(s, m, l) ==
    LET l1 == IF l = -1 THEN strlen(s) ELSE l
        l2 == IF l1 >= m THEN m - 1 ELSE l1
    IN  IF (l2 >= m) /\ (l2 > 4)
        THEN SubSeq(s, 1, Min(m - 4, Len(s))) \o <<".", ".", ".">>
        ELSE SubSeq(s, 1, Min(l2, Len(s)))

\* strftime(last_updated, 19, "%F %T", t) at the clock reading now, which
\* stands for the first of January of the year 2000 + now.  The text and its
\* NUL take 20 bytes and strftime is given 19: it returns 0, having written
\* the date and the blank and nothing of the time.
Strftime(now) ==
    <<"2", "0", "0">> \o Itoa(now) \o <<"-", "0", "1", "-", "0", "1", " ">>

\* GetCurrentDateTime: the text it leaves in last_updated, in an array that
\* held zeroes or an earlier text of GetCurrentDateTime.
GetCurrentDateTime(env) == Strftime(env.now)

\* t.tags[i] as GetTagID and GetTagName read it, for every i < ROW_TAG_C:
\* past the allocated elements the read is of whatever lies in the heap.
TagMem(t, i, heap) == IF i < Len(t.tags) THEN At(t.tags, i) ELSE heap.tag

\* The least of a set of indices, none when the set is empty: where a search
\* loop that runs upwards stops.
FirstOf(hit, none) ==
    IF hit = {} THEN none ELSE CHOOSE i \in hit : \A j \in hit : i <= j

\* What GetTagID returns when its loop stops at index i (-1: it ran out).
TagIdAt(t, i, heap) == IF i = -1 THEN 0 ELSE TagMem(t, i, heap).id

\* GetTagID: the id of the first of t.tags[0 .. ROW_TAG_C-1] whose name is s
\* (strcmp), 0 when there is none.
GetTagID(t, s, heap) ==
    TagIdAt(t, FirstOf({i \in 0..(ROW_TAG_C - 1) :
                           strcmp0(TagMem(t, i, heap).name, s)}, -1), heap)

\* GetInputTagIndex for a buffer that is not NULL: the index of the first of
\* the count tags whose id (a buffer that starts with a digit) or whose name
\* (stricmp) matches, and 0 when none does.
GetInputTagIndex(c, buf) ==
    FirstOf(IF isdigit(CharAt(buf, 0))
            THEN {i \in 0..(c.tags.count - 1) :
                     At(c.tags.tags, i).id = atoi(buf)}
            ELSE {i \in 0..(c.tags.count - 1) :
                     stricmp(At(c.tags.tags, i).name, buf) = 0}, 0)

ReservedWords ==
    {<<"a", "d", "d">>, <<"u", "p", "d", "a", "t", "e">>,
     <<"r", "e", "n", "a", "m", "e">>, <<"r", "e", "m", "o", "v", "e">>}

\* ValidateTagName(io_buffer, index): whether it calls exit, and the buffer
\* it leaves (a blank becomes '-').  A name with a blank is copied into
\* buffer[TAG_NAME_S] character by character, as long as it is, and strcpy'd
\* back: smashed tells that the copy ran past the end of buffer.
ValidateTagName(buf) ==
    IF isdigit(CharAt(buf, 0))
    THEN [exited |-> TRUE, buf |-> buf, smashed |-> FALSE]
    ELSE IF \E w \in ReservedWords : stricmp(buf, w) = 0
    THEN [exited |-> TRUE, buf |-> buf, smashed |-> FALSE]
    ELSE [exited |-> FALSE,
          buf |-> IF HasSpace(buf)
                  THEN [i \in 1..Len(buf) |-> IF buf[i] = " " THEN "-" ELSE buf[i]]
                  ELSE buf,
          smashed |-> HasSpace(buf) /\ strlen(buf) >= TAG_NAME_S]

\* A write past the end of an array ends the process in a build that guards
\* its arrays (the stack protector, the checks of malloc), and lands in
\* memory that nothing else reads in a build that does not.
Killed(past, env) == past /\ env.heap.guard

\* The index of the row whose id is id among the first count rows, -1 when
\* there is none (the search loop of update, remove and tag <id> <ref>).
FindRow(c, id) ==
    FirstOf({i \in 0..(c.table.count - 1) : At(c.table.rows, i).id = id}, -1)

SetRow(c, index, row) == [c EXCEPT !.table.rows[index + 1] = row]

(***************************************************************************)
(* ProcessCommand, one operator for each case of its switch.               *)
(***************************************************************************)
\* One pass of the while loop of IM_ADD: id is what the token stands for, by
\* number or by name.  A name that GetTagID does not find is reported and
\* nothing is written.
AddToken(acc, numeric, id) ==
    IF ~numeric /\ id = 0 THEN acc
    ELSE IF acc.i < ROW_TAG_C
    THEN [acc EXCEPT !.tag_ids[acc.i + 1] = id, !.i = acc.i + 1]
    ELSE [acc EXCEPT !.spill = Append(acc.spill, id), !.i = acc.i + 1]

RECURSIVE AddTokens(_, _, _, _, _)
\* The while loop of IM_ADD over the tokens of a tag list: tag_ids[i++] is
\* written for a token that starts with a digit or names a tag.  A write at
\* i >= ROW_TAG_C lands past tag_ids; spill keeps what was written there.
AddTokens(c, heap, toks, k, acc) ==
    IF k > Len(toks) THEN acc
    ELSE AddTokens(c, heap, toks, k + 1,
                   AddToken(acc, isdigit(CharAt(toks[k], 0)),
                            IF isdigit(CharAt(toks[k], 0)) THEN atoi(toks[k])
                            ELSE GetTagID(c.tags, toks[k], heap)))

\* IM_ADD with one tag given by name: tag_ids[0] is written when GetTagID
\* finds the name.
AddOneTag(slots, id) ==
    [tag_ids |-> IF id = 0 THEN slots ELSE [slots EXCEPT ![1] = id],
     i |-> 0, spill |-> <<>>]

\* The tag slots IM_ADD leaves in the new row, and what it wrote past them.
AddRowTags(c, heap, slots, tag) ==
    IF tag = NULL THEN [tag_ids |-> slots, i |-> 0, spill |-> <<>>]
    ELSE IF ~HasSpace(tag)
    THEN IF isdigit(CharAt(tag, 0))
         THEN [tag_ids |-> [slots EXCEPT ![1] = atoi(tag)], i |-> 0,
               spill |-> <<>>]
         ELSE AddOneTag(slots, GetTagID(c.tags, tag, heap))
    ELSE AddTokens(c, heap, strtok(tag), 1,
                   [tag_ids |-> slots, i |-> 0, spill |-> <<>>])

\* The row IM_ADD builds in spare, the element rows[count], which holds what
\* the heap held except for the fields written here; tg is what the tag list
\* wrote.
NewRow(c, spare, tg, ia, env) ==
    [id |-> c.table.next_UID,
     url |-> [long_url |-> spare.url.long_url, s |-> ia.mod, l |-> BadPtr],
     title |-> IF ia.title # NULL THEN strcpyt(ia.title, TITLE_S, -1)
               ELSE strcpyt(env.fetch.title, TITLE_S, Len(env.fetch.title)),
     tag_ids |-> tg.tag_ids,
     comment |-> Clobbered(IF ia.comment # NULL
                           THEN strcpyt(ia.comment, COMMENT_S, -1)
                           ELSE spare.comment, tg.spill),
     last_updated |-> GetCurrentDateTime(env)]

\* IM_ADD once the title is known: the row is built in rows[count].
AddAt(c, spare, ia, env) ==
    SetRow(c, c.table.count,
           NewRow(c, spare,
                  AddRowTags(c, env.heap, spare.tag_ids, ia.tag), ia, env))

\* case IM_ADD
IM_ADD(c, ia, env) ==
    IF ia.title = NULL /\ ~env.fetch.ok
    THEN Exit([c EXCEPT !.table.next_UID = @ + 1], "fetch failed")
    ELSE Return([AddAt(c, At(c.table.rows, c.table.count), ia, env)
                    EXCEPT !.table.count = @ + 1,
                           !.table.next_UID = @ + 1])

RECURSIVE ScanSlots(_, _, _, _, _)
\* The for loop of UpdateRowTags over the slots of a row, up to the slot that
\* holds tagId (where it asks and breaks) or to the end.
ScanSlots(slots, tagId, i, full, tagIndexInRow) ==
    IF i >= ROW_TAG_C
    THEN [found |-> FALSE, full |-> full, index |-> tagIndexInRow]
    ELSE IF slots[i + 1] = 0 /\ tagIndexInRow = -1
    THEN ScanSlots(slots, tagId, i + 1, FALSE, i)
    ELSE IF slots[i + 1] = tagId
    THEN [found |-> TRUE, full |-> FALSE, index |-> i]
    ELSE ScanSlots(slots, tagId, i + 1, full, tagIndexInRow)

\* The tag an argument stands for in UpdateRowTags: the number it starts
\* with, or the id of the tag GetInputTagIndex picks once ValidateTagName
\* has let the name through as v.
NamedTag(c, v) ==
    [exited |-> v.exited, buf |-> v.buf, smashed |-> v.smashed,
     id |-> IF v.exited THEN 0
            ELSE At(c.tags.tags, GetInputTagIndex(c, v.buf)).id]

InputTag(c, buf) ==
    IF isdigit(CharAt(buf, 0))
    THEN [exited |-> FALSE, buf |-> buf, smashed |-> FALSE, id |-> atoi(buf)]
    ELSE NamedTag(c, ValidateTagName(buf))

\* UpdateRowTags after its scan sc of the slots: a tag the row holds is
\* taken off once the user agrees, another is put in the first free slot.
ToggleTag(c, rowIndex, t, sc, env, pos) ==
    IF sc.found /\ ~Confirmed(env, pos)
    THEN [r |-> Exit(c, "declined"), buf |-> t.buf, pos |-> pos + 1]
    ELSE IF sc.full
    THEN [r |-> Exit(c, "slots full"), buf |-> t.buf, pos |-> pos]
    ELSE [r |-> Return([c EXCEPT
                          !.table.rows[rowIndex + 1].tag_ids[sc.index + 1] =
                              IF sc.found THEN 0 ELSE t.id]),
          buf |-> t.buf,
          pos |-> IF sc.found THEN pos + 1 ELSE pos]

UpdateWithTag(c, rowIndex, t, env, pos) ==
    IF t.exited
    THEN [r |-> Exit(c, "invalid tag name"), buf |-> t.buf, pos |-> pos]
    ELSE IF Killed(t.smashed, env)
    THEN [r |-> Exit(c, "killed"), buf |-> t.buf, pos |-> pos]
    ELSE ToggleTag(c, rowIndex, t,
                   ScanSlots(At(c.table.rows, rowIndex).tag_ids, t.id, 0,
                             TRUE, -1), env, pos)

\* UpdateRowTags(io_c, rowIndex, ia) with ia->word_buffers[WI_TAG] = buf, and
\* pos the next character of stdin: the Core, the buffer and the position it
\* leaves, and whether it called exit.
UpdateRowTags(c, rowIndex, buf, env, pos) ==
    UpdateWithTag(c, rowIndex, InputTag(c, buf), env, pos)

RECURSIVE UpdateLoop(_, _, _, _, _, _)
\* The for loop of IM_UPDATE over a tag list once a call of UpdateRowTags has
\* left u: the loop goes on while strtok returns a token.
UpdateNext(u, index, env, n) ==
    IF u.r.exited THEN u.r
    ELSE UpdateLoop(u.r.core, index, u.buf, env, u.pos, n - 1)

\* The for loop of IM_UPDATE over a tag list: one call of UpdateRowTags for
\* each token strtok returns, each on the buffer as strtok has left it.
UpdateLoop(c, index, buf, env, pos, n) ==
    IF n = 0 THEN Return(c)
    ELSE UpdateNext(UpdateRowTags(c, index, buf, env, pos), index, env, n)

\* An update that copies the title and the comment whether given or not: a
\* field that was not given is emptied.
UpdateTextAlways(c, index, ia) ==
    [c EXCEPT
       !.table.rows[index + 1].title =
           IF ia.title # NULL THEN strcpyt(ia.title, TITLE_S, -1) ELSE <<>>,
       !.table.rows[index + 1].comment =
           IF ia.comment # NULL THEN strcpyt(ia.comment, COMMENT_S, -1)
           ELSE <<>>]

\* The title and the comment IM_UPDATE copies into the row.
UpdateText(c, index, ia) ==
    [c EXCEPT
       !.table.rows[index + 1].title =
           IF ia.title # NULL THEN strcpyt(ia.title, TITLE_S, -1) ELSE @,
       !.table.rows[index + 1].comment =
           IF ia.comment # NULL THEN strcpyt(ia.comment, COMMENT_S, -1)
           ELSE @]

\* The tags IM_UPDATE toggles: one call of UpdateRowTags for a single tag, the
\* loop over strtok's tokens for a list.
UpdateTags(c, index, ia, env) ==
    IF ia.tag = NULL THEN Return(c)
    ELSE IF ~HasSpace(ia.tag)
    THEN UpdateRowTags(c, index, ia.tag, env, 1).r
    ELSE UpdateLoop(c, index, AfterStrtok(ia.tag), env, 1,
                    Len(strtok(ia.tag)))

\* The end of IM_UPDATE: the row's date and time are set.
UpdateStamp(r, index, env) ==
    IF r.exited THEN r
    ELSE Return([r.core EXCEPT !.table.rows[index + 1].last_updated =
                                   GetCurrentDateTime(env)])

UpdateAt(c, index, ia, env) ==
    IF index = -1 THEN Exit(c, "row not found")
    ELSE UpdateStamp(UpdateTags(UpdateText(c, index, ia), index, ia, env),
                     index, env)

\* case IM_UPDATE
IM_UPDATE(c, ia, env) ==
    IF ~isdigit(CharAt(ia.mod, 0)) THEN Exit(c, "not a row id")
    ELSE UpdateAt(c, FindRow(c, atoi(ia.mod)), ia, env)

\* IM_REMOVE once its search loop has ended at index.
RemoveAt(c, index, env) ==
    IF index = -1 THEN Exit(c, "row not found")
    ELSE IF Confirmed(env, 1)
    THEN Return([c EXCEPT !.table.rows[index + 1].id = 0,
                          !.table.count = @ - 1])
    ELSE Exit(c, "declined")

\* case IM_REMOVE
IM_REMOVE(c, ia, env) ==
    IF ~isdigit(CharAt(ia.mod, 0)) THEN Exit(c, "not a row id")
    ELSE RemoveAt(c, FindRow(c, atoi(ia.mod)), env)

\* A tag add that takes the number of tags for the id of the new tag.
AddTagNumbered(c, v, env) ==
    IF v.exited THEN Exit(c, "invalid tag name")
    ELSE Return([c EXCEPT !.tags.tags[c.tags.count + 1] =
                              [id |-> c.tags.count, name |-> v.buf],
                          !.tags.count = @ + 1,
                          !.tags.next_UID = @ + 1])

\* IM_TAG_ADD once ValidateTagName has left v: the tag is built in
\* tags[count], the spare element, which is the last of its block.  strcpy
\* copies the name as long as it is: one of TAG_NAME_S characters or more
\* runs past name[] and past the block.
AddTagNamed(c, v, env) ==
    IF v.exited THEN Exit(c, "invalid tag name")
    ELSE IF Killed(v.smashed \/ strlen(v.buf) >= TAG_NAME_S, env)
    THEN Exit(c, "killed")
    ELSE Return([c EXCEPT !.tags.tags[c.tags.count + 1] =
                              [id |-> c.tags.next_UID, name |-> v.buf],
                          !.tags.count = @ + 1,
                          !.tags.next_UID = @ + 1])

\* case IM_TAG_ADD
IM_TAG_ADD(c, ia, env) ==
    IF isdigit(CharAt(ia.mod, 0)) THEN Exit(c, "invalid tag name")
    ELSE AddTagNamed(c, ValidateTagName(ia.mod), env)

RECURSIVE ScanFree(_, _, _, _, _)
\* The for loop of IM_TAG_ADD_TO_ENTRY over the slots of a row: the first
\* free slot, and whether a slot after it or before any free one holds id.
ScanFree(slots, id, i, full, freeTagIndex) ==
    IF i >= ROW_TAG_C
    THEN [tagged |-> FALSE, full |-> full, index |-> freeTagIndex]
    ELSE IF slots[i + 1] = 0 /\ freeTagIndex = -1
    THEN ScanFree(slots, id, i + 1, FALSE, i)
    ELSE IF slots[i + 1] = id
    THEN [tagged |-> TRUE, full |-> full, index |-> freeTagIndex]
    ELSE ScanFree(slots, id, i + 1, full, freeTagIndex)

\* An assignment that never finds the row full: it takes the last slot.
AssignAtLastSlot(c, urlIndex, id, sc, env) ==
    IF sc.tagged THEN Exit(c, "already tagged")
    ELSE Return([c EXCEPT
                   !.table.rows[urlIndex + 1].tag_ids[
                       IF sc.full THEN ROW_TAG_C ELSE sc.index + 1] = id,
                   !.table.rows[urlIndex + 1].last_updated =
                       GetCurrentDateTime(env)])

\* IM_TAG_ADD_TO_ENTRY after its scan sc of the row's slots.
AssignAt(c, urlIndex, id, sc, env) ==
    IF sc.tagged THEN Exit(c, "already tagged")
    ELSE IF sc.full THEN Exit(c, "slots full")
    ELSE Return([c EXCEPT
                   !.table.rows[urlIndex + 1].tag_ids[sc.index + 1] = id,
                   !.table.rows[urlIndex + 1].last_updated =
                       GetCurrentDateTime(env)])

\* IM_TAG_ADD_TO_ENTRY once the tag (at tagIndex) and the row (at urlIndex)
\* have been looked up.
AssignTo(c, urlIndex, id, env) ==
    IF urlIndex = -1 THEN Exit(c, "row not found")
    ELSE AssignAt(c, urlIndex, id,
                  ScanFree(At(c.table.rows, urlIndex).tag_ids, id, 0, TRUE,
                           -1), env)

\* The tag reference of tag <id> <ref> and of tag remove <ref>: a number is
\* taken as it is, a name goes through ValidateTagName.
TagRef(buf) ==
    IF isdigit(CharAt(buf, 0))
    THEN [exited |-> FALSE, buf |-> buf, smashed |-> FALSE]
    ELSE ValidateTagName(buf)

AssignRef(c, ia, v, env) ==
    IF v.exited THEN Exit(c, "invalid tag name")
    ELSE IF Killed(v.smashed, env) THEN Exit(c, "killed")
    ELSE AssignTo(c, FindRow(c, atoi(ia.mod)),
                  At(c.tags.tags, GetInputTagIndex(c, v.buf)).id, env)

\* case IM_TAG_ADD_TO_ENTRY
IM_TAG_ADD_TO_ENTRY(c, ia, env) ==
    IF ~isdigit(CharAt(ia.mod, 0)) THEN Exit(c, "not a row id")
    ELSE AssignRef(c, ia, TagRef(ia.tag), env)

\* case IM_TAG_RENAME
IM_TAG_RENAME(c, ia, env) ==
    LET index == GetInputTagIndex(c, ia.mod)
    IN  Return([c EXCEPT !.tags.tags[index + 1].name = ia.tag])

\* A removal that looks at the first row only.
ClearTagFirstRow(c, id, env) ==
    [c EXCEPT !.table.rows[1].tag_ids =
        [j \in 1..ROW_TAG_C |-> IF @[j] = id THEN 0 ELSE @[j]]]

\* The two for loops of IM_TAG_REMOVE: every slot of the first count rows
\* that holds id is zeroed, and the row's date and time are set.
ClearTag(c, id, env) ==
    [c EXCEPT !.table.rows =
        [k \in 1..Len(c.table.rows) |->
            LET row == c.table.rows[k]
            IN  IF k <= c.table.count
                   /\ \E j \in 1..ROW_TAG_C : row.tag_ids[j] = id
                THEN [row EXCEPT
                        !.tag_ids = [j \in 1..ROW_TAG_C |->
                                        IF row.tag_ids[j] = id THEN 0
                                        ELSE row.tag_ids[j]],
                        !.last_updated = GetCurrentDateTime(env)]
                ELSE row]]

\* IM_TAG_REMOVE once GetInputTagIndex has returned index: the tag's id is
\* taken off the rows, then zeroed.
RemoveTagAt(c, index, env) ==
    IF Confirmed(env, 1)
    THEN Return([ClearTag(c, At(c.tags.tags, index).id, env)
                    EXCEPT !.tags.tags[index + 1].id = 0])
    ELSE Exit(c, "declined")

RemoveRef(c, v, env) ==
    IF v.exited THEN Exit(c, "invalid tag name")
    ELSE IF Killed(v.smashed, env) THEN Exit(c, "killed")
    ELSE RemoveTagAt(c, GetInputTagIndex(c, v.buf), env)

\* case IM_TAG_REMOVE
IM_TAG_REMOVE(c, ia, env) ==
    RemoveRef(c, TagRef(ia.mod), env)

\* A search that goes on from where it is after a mismatch.
StristrNoRestart(p1, r) == p1

\* stristr after a mismatch: p1 goes back to the character after r, where the
\* partial match began, when there was one.
StristrRestart(p1, r) == IF r # -1 THEN r + 1 ELSE p1

RECURSIVE StristrLoop(_, _, _, _, _)
\* The else branch of stristr's loop once p1 has been set to q.
StristrRetry(a, b, q) ==
    IF toupper(CharAt(a, q)) = toupper(CharAt(b, 0))
    THEN StristrLoop(a, b, q + 1, 1, q)
    ELSE StristrLoop(a, b, q + 1, 0, -1)

\* The while loop of stristr: p1 and p2 are offsets in a and in b, r is the
\* offset in a of the match in progress, -1 for a null pointer.
StristrLoop(a, b, p1, p2, r) ==
    IF CharAt(a, p1) = "" \/ CharAt(b, p2) = ""
    THEN IF CharAt(b, p2) = "" THEN r ELSE -1
    ELSE IF toupper(CharAt(a, p1)) = toupper(CharAt(b, p2))
    THEN StristrLoop(a, b, p1 + 1, p2 + 1, IF r = -1 THEN p1 ELSE r)
    ELSE StristrRetry(a, b, StristrRestart(p1, r))

\* stristr(a, b): the offset in a of what it returns, -1 for NULL.
stristr(a, b) ==
    StristrLoop(a, b, 0, 0, IF CharAt(b, 0) = "" THEN 0 ELSE -1)

\* What PrintRow and PrintWithTagIDs print of a row: the number that leads
\* the line, the title and the URL.
Printed(label, r) ==
    [label |-> label, title |-> r.title,
     url |-> IF r.url.long_url # 0 THEN r.url.l ELSE r.url.s]

\* PrintRow for the rows at the indices idx, in that order.
PrintRows(c, idx) ==
    [k \in 1..Len(idx) |->
        Printed(At(c.table.rows, idx[k]).id, At(c.table.rows, idx[k]))]

\* IM_LIST with a search term: every live row for "all" (stricmp), else the
\* live rows in whose title stristr finds the term.
ListTitles(c, term) ==
    IF stricmp(term, <<"a", "l", "l">>) = 0
    THEN PrintRows(c, SeqOfSet(LiveUpTo(c.table.rows, c.table.count)))
    ELSE PrintRows(c, SeqOfSet({i \in LiveUpTo(c.table.rows, c.table.count) :
                                  stristr(At(c.table.rows, i).title, term) # -1}))

RowHasTagId(r, id) == \E j \in 1..ROW_TAG_C : r.tag_ids[j] = id

RECURSIVE PrintWithTagIDsFrom(_, _, _, _, _)
\* The outer loop of PrintWithTagIDs from row i on: row i is printed, with
\* its index i, once for each j < tc such that it holds tagIds[j].
PrintWithTagIDsFrom(tagIds, tc, r, rc, i) ==
    IF i >= rc THEN <<>>
    ELSE [k \in 1..Cardinality({j \in 0..(tc - 1) :
                                   RowHasTagId(At(r, i), At(tagIds, j))}) |->
             Printed(i, At(r, i))]
         \o PrintWithTagIDsFrom(tagIds, tc, r, rc, i + 1)

PrintWithTagIDs(tagIds, tc, r, rc) == PrintWithTagIDsFrom(tagIds, tc, r, rc, 0)

\* The id IM_LIST takes for a token: its number, or what GetTagID finds for
\* its name.
ListTagId(c, tok, heap) ==
    IF isdigit(CharAt(tok, 0)) THEN atoi(tok) ELSE GetTagID(c.tags, tok, heap)

\* The number of blanks in a tag list.
Blanks(s) == Cardinality({i \in 1..Len(s) : s[i] = " "})

\* tmp after the while loop of IM_LIST over the tokens: freq + 1 zeroed
\* elements, and every token written to tmp[i] with i left at 0.
TmpIds(c, toks, freq, heap) ==
    [j \in 1..(freq + 1) |->
        IF j = 1 /\ Len(toks) > 0 THEN ListTagId(c, toks[Len(toks)], heap)
        ELSE 0]

\* IM_LIST with a tag list: the loop ends in exit(-1) at a name GetTagID does
\* not find, else PrintWithTagIDs runs over the first freq elements of tmp.
ListTagList(c, toks, freq, heap) ==
    IF \E k \in 1..Len(toks) : ListTagId(c, toks[k], heap) = 0
                                 /\ ~isdigit(CharAt(toks[k], 0))
    THEN [core |-> c, exited |-> TRUE, why |-> "tag not found", out |-> <<>>]
    ELSE [core |-> c, exited |-> FALSE, why |-> "return",
          out |-> PrintWithTagIDs(TmpIds(c, toks, freq, heap), freq,
                                  c.table.rows, c.table.count)]

\* IM_LIST with one tag, whose id is id.
ListOneTag(c, tg, id) ==
    IF ~isdigit(CharAt(tg, 0)) /\ id = 0
    THEN [core |-> c, exited |-> TRUE, why |-> "tag not found", out |-> <<>>]
    ELSE [core |-> c, exited |-> FALSE, why |-> "return",
          out |-> PrintWithTagIDs(<<id>>, 1, c.table.rows, c.table.count)]

\* case IM_LIST: how it ends, and the rows it prints.
IM_LIST(c, ia, env) ==
    IF ia.mod # NULL
    THEN [core |-> c, exited |-> FALSE, why |-> "return",
          out |-> ListTitles(c, ia.mod)]
    ELSE IF ia.tag = NULL
    THEN [core |-> c, exited |-> FALSE, why |-> "return", out |-> <<>>]
    ELSE IF HasSpace(ia.tag)
    THEN ListTagList(c, strtok(ia.tag), Blanks(ia.tag), env.heap)
    ELSE ListOneTag(c, ia.tag, ListTagId(c, ia.tag, env.heap))

\* case IM_OPEN: the row is looked up by its id and xdg-open is run on its
\* URL; env.fetch.ok tells whether system() returned 0.
IM_OPEN(c, ia, env) ==
    IF FindRow(c, atoi(ia.mod)) = -1 THEN Exit(c, "row not found")
    ELSE IF ~env.fetch.ok THEN Exit(c, "open failed")
    ELSE Return(c)

\* What IM_TAG_LIST prints for the tags at the indices idx: id and name.
PrintTags(c, idx) ==
    [k \in 1..Len(idx) |->
        [label |-> At(c.tags.tags, idx[k]).id,
         name |-> At(c.tags.tags, idx[k]).name]]

\* case IM_TAG_LIST: the id and the name of every live tag are printed.
IM_TAG_LIST(c, ia, env) ==
    IF stricmp(ia.mod, <<"a", "l", "l">>) # 0 THEN Exit(c, "not all")
    ELSE [core |-> c, exited |-> FALSE, why |-> "return",
          out |-> PrintTags(c, SeqOfSet(LiveUpTo(c.tags.tags, c.tags.count)))]

ProcessCommand(c, ia, env) ==
    CASE ia.input_mode = "IM_ADD" -> IM_ADD(c, ia, env)
      [] ia.input_mode = "IM_OPEN" -> IM_OPEN(c, ia, env)
      [] ia.input_mode = "IM_TAG_LIST" -> IM_TAG_LIST(c, ia, env)
      [] ia.input_mode = "IM_LIST" -> IM_LIST(c, ia, env)
      [] ia.input_mode = "IM_UPDATE" -> IM_UPDATE(c, ia, env)
      [] ia.input_mode = "IM_REMOVE" -> IM_REMOVE(c, ia, env)
      [] ia.input_mode = "IM_TAG_ADD" -> IM_TAG_ADD(c, ia, env)
      [] ia.input_mode = "IM_TAG_ADD_TO_ENTRY" -> IM_TAG_ADD_TO_ENTRY(c, ia, env)
      [] ia.input_mode = "IM_TAG_RENAME" -> IM_TAG_RENAME(c, ia, env)
      [] ia.input_mode = "IM_TAG_REMOVE" -> IM_TAG_REMOVE(c, ia, env)

(***************************************************************************)
(* main                                                                    *)
(***************************************************************************)
\* A main that calls WriteJSON however ProcessCommand ended.
PersistAlways(f, r) == IF WildRead(r.core) THEN f ELSE WriteJSON(r.core)

\* The savefile an invocation leaves whose ProcessCommand ended as r: main
\* calls WriteJSON only when ProcessCommand returns, and WriteJSON opens the
\* file only once it has printed every row.
Persist(f, r) ==
    IF r.exited \/ WildRead(r.core) THEN f ELSE WriteJSON(r.core)

\* main after ProcessCommand has ended as r on the Core c that ReadJSON
\* built.
Finish(f, c, r) ==
    [file |-> Persist(f, r), loaded |-> c, core |-> r.core,
     status |-> IF r.exited THEN r.why
                ELSE IF WildRead(r.core) THEN "crashed"
                ELSE "saved",
     out |-> IF "out" \in DOMAIN r THEN r.out ELSE <<>>]

Run(f, c, ia, env) == Finish(f, c, ProcessCommand(c, ia, env))

\* A main that goes on to the command once it has created the savefile.
MainRunsAfterCreate(f, ia, env) ==
    IF ~f.exists
    THEN IF Confirmed(env, 1)
         THEN Run(WriteJSON(EmptyCore), EmptyCore, ia, env)
         ELSE [file |-> f, loaded |-> EmptyCore, core |-> EmptyCore,
               status |-> "no file", out |-> <<>>]
    ELSE IF ~JsonParses(f) \/ \E i \in 1..Len(f.rows) : ~RowAsserts(f.rows[i])
    THEN [file |-> f, loaded |-> EmptyCore, core |-> EmptyCore,
          status |-> "load failed", out |-> <<>>]
    ELSE Run(f, ReadJSON(f, env.heap), ia, env)

\* One invocation on savefile f: what it leaves and how it ends.
Main(f, ia, env) ==
    IF ~f.exists
    THEN IF Confirmed(env, 1)
         THEN [file |-> WriteJSON(EmptyCore), loaded |-> EmptyCore,
               core |-> EmptyCore, status |-> "created", out |-> <<>>]
         ELSE [file |-> f, loaded |-> EmptyCore, core |-> EmptyCore,
               status |-> "no file", out |-> <<>>]
    ELSE IF ~JsonParses(f) \/ \E i \in 1..Len(f.rows) : ~RowAsserts(f.rows[i])
    THEN [file |-> f, loaded |-> EmptyCore, core |-> EmptyCore,
          status |-> "load failed", out |-> <<>>]
    ELSE Run(f, ReadJSON(f, env.heap), ia, env)

(***************************************************************************)
(* The inputs of an invocation: the command line (InputArgs, as            *)
(* ParseEntryInput and ParseTagInput fill it) and what the invocation      *)
(* gets from outside: the characters of stdin, the clock, the page         *)
(* GetWebpage downloads, and what the heap holds where ReadJSON's arrays   *)
(* are allocated and not written.                                          *)
(***************************************************************************)
InputArgs(mode, mod, title, comment, tag) ==
    [input_mode |-> mode, mod |-> mod, title |-> title, comment |-> comment,
     tag |-> tag]

Env(stdin, now, page, heap) ==
    [stdin |-> stdin, now |-> now, fetch |-> page, heap |-> heap]

NoPage == [ok |-> FALSE, title |-> <<>>]

Page(title) == [ok |-> TRUE, title |-> title]

\* Memory that holds zeroes, and a sample of memory that does not; guard
\* tells whether a write past the end of an array ends the process.  memset
\* zeroes one byte past the elements read from the file, the low byte of the
\* spare element's id: the rest of a spare Tag's id and its name are what the
\* heap held, and so is a spare Row's long_url flag, over a pointer that was
\* never assigned.
ZeroHeap == [tag |-> ZeroTag, row |-> ZeroRow, guard |-> FALSE]

DirtyHeap ==
    [tag |-> [id |-> 256, name |-> <<"?">>],
     row |-> [ZeroRow EXCEPT !.url.long_url = 1, !.comment = <<"?">>],
     guard |-> FALSE]

GuardedHeap == [ZeroHeap EXCEPT !.guard = TRUE]

\* Answers typed at the prompts: one character is read at each prompt.
Yes == <<"y", "\n">>

No == <<"n", "\n">>

YesYes == <<"y", "y">>

\* The command lines and the outside of the invocations of Spec.
Inputs ==
    [add |-> {[title |-> <<"t">>, comment |-> NULL, tag |-> NULL],
              [title |-> NULL, comment |-> NULL, tag |-> <<"1">>]},
     update |-> {[title |-> NULL, comment |-> NULL, tag |-> <<"2">>],
                 [title |-> NULL, comment |-> NULL, tag |-> <<"z">>],
                 [title |-> NULL, comment |-> NULL,
                  tag |-> <<"a", " ", "b">>]},
     rowRefs |-> {<<"1">>, <<"2">>, <<"x">>},
     tagNames |-> {<<"a">>, <<"b">>, <<"1", "a">>},
     tagRefs |-> {<<"1">>, <<"2">>, <<"a">>, <<"z">>},
     newNames |-> {<<"b">>, <<"\"">>},
     stdins |-> {Yes, No, YesYes},
     times |-> {1},
     pages |-> {NoPage, Page(<<"t">>)},
     heaps |-> {ZeroHeap, DirtyHeap}]

(***************************************************************************)
(* The state machine: one action for each command, each a whole            *)
(* invocation of main, and the end of the process.                         *)
(***************************************************************************)
NoArgs == InputArgs("IM_INVALID", NULL, NULL, NULL, NULL)

NoRun == [ia |-> NoArgs, status |-> "none", now |-> 0,
          hwm |-> [row |-> 0, tag |-> 0], out |-> <<>>]

Init ==
    /\ file = NoFile
    /\ pc = "shell"
    /\ prevFile = NoFile
    /\ loaded = EmptyCore
    /\ core = EmptyCore
    /\ last = NoRun
    /\ hwm = [row |-> 0, tag |-> 0]

\* The largest of m and the ids of the first count elements of arr.
Highest(arr, count, m) ==
    LET ids == {arr[i].id : i \in 1..Min(count, Len(arr))} \cup {m}
    IN  CHOOSE x \in ids : \A y \in ids : x >= y

Invoke(ia, env) ==
    \E m \in {Main(file, ia, env)} :
        /\ pc' = "ended"
        /\ file' = m.file
        /\ prevFile' = file
        /\ loaded' = m.loaded
        /\ core' = m.core
        /\ last' = [ia |-> ia, status |-> m.status, now |-> env.now,
                    hwm |-> hwm, out |-> m.out]
        /\ hwm' = IF m.status = "saved"
                  THEN [row |-> Highest(m.core.table.rows,
                                         m.core.table.count, hwm.row),
                        tag |-> Highest(m.core.tags.tags,
                                         m.core.tags.count, hwm.tag)]
                  ELSE hwm

\* The process ends: its memory is gone, the savefile stays.
ProcessExit ==
    /\ pc = "ended"
    /\ pc' = "shell"
    /\ prevFile' = file
    /\ loaded' = EmptyCore
    /\ core' = EmptyCore
    /\ last' = NoRun
    /\ UNCHANGED <<file, hwm>>

\* An invocation that finds no savefile: ReadJSON asks whether to create one
\* and the invocation ends there, whatever the command.
FirstRun(I) ==
    /\ pc = "shell"
    /\ ~file.exists
    /\ \E name \in I.tagNames, stdin \in I.stdins :
          Invoke(InputArgs("IM_TAG_ADD", name, NULL, NULL, NULL),
                 Env(stdin, 1, NoPage, ZeroHeap))

\* The keys of the savefile's rows (tags) leave room within the bounds.
RoomFor(lines, maxCount) ==
    /\ Len(lines) < maxCount
    /\ \A i \in 1..Len(lines) : atoi(lines[i].key) < MaxId

\* The heaps an invocation can tell apart when it adds no row: the spare Tag
\* is read only through index 0 of an array that holds no tag.
TagHeaps(I) ==
    IF Len(file.tags) = 0 /\ Len(file.rows) <= MaxGarbageRows
    THEN I.heaps ELSE {ZeroHeap}

AddRow(I) ==
    /\ pc = "shell"
    /\ file.exists
    /\ RoomFor(file.rows, MaxRows)
    /\ \E a \in I.add, now \in I.times, heap \in I.heaps :
       \E page \in IF a.title = NULL THEN I.pages ELSE {NoPage} :
          Invoke(InputArgs("IM_ADD", <<"u">>, a.title, a.comment, a.tag),
                 Env(<<"\n">>, now, page, heap))

UpdateRow(I) ==
    /\ pc = "shell"
    /\ file.exists
    /\ \E id \in I.rowRefs, u \in I.update, now \in I.times,
          heap \in TagHeaps(I) :
       \E stdin \in IF u.tag = NULL THEN {No} ELSE I.stdins :
          Invoke(InputArgs("IM_UPDATE", id, u.title, u.comment, u.tag),
                 Env(stdin, now, NoPage, heap))

RemoveRow(I) ==
    /\ pc = "shell"
    /\ file.exists
    /\ \E id \in I.rowRefs, stdin \in I.stdins :
          Invoke(InputArgs("IM_REMOVE", id, NULL, NULL, NULL),
                 Env(stdin, 1, NoPage, ZeroHeap))

AddTag(I) ==
    /\ pc = "shell"
    /\ file.exists
    /\ RoomFor(file.tags, MaxTags)
    /\ \E name \in I.tagNames :
       \E heap \in IF strlen(name) >= TAG_NAME_S
                   THEN {ZeroHeap, GuardedHeap} ELSE {ZeroHeap} :
          Invoke(InputArgs("IM_TAG_ADD", name, NULL, NULL, NULL),
                 Env(<<"\n">>, 1, NoPage, heap))

AssignTagToRow(I) ==
    /\ pc = "shell"
    /\ file.exists
    /\ \E id \in I.rowRefs, ref \in I.tagRefs, now \in I.times,
          heap \in TagHeaps(I) :
          Invoke(InputArgs("IM_TAG_ADD_TO_ENTRY", id, NULL, NULL, ref),
                 Env(<<"\n">>, now, NoPage, heap))

RenameTag(I) ==
    /\ pc = "shell"
    /\ file.exists
    /\ \E ref \in I.tagRefs, name \in I.newNames, heap \in TagHeaps(I) :
          Invoke(InputArgs("IM_TAG_RENAME", ref, NULL, NULL, name),
                 Env(<<"\n">>, 1, NoPage, heap))

RemoveTag(I) ==
    /\ pc = "shell"
    /\ file.exists
    /\ \E ref \in I.tagRefs, now \in I.times, stdin \in I.stdins,
          heap \in TagHeaps(I) :
          Invoke(InputArgs("IM_TAG_REMOVE", ref, NULL, NULL, NULL),
                 Env(stdin, now, NoPage, heap))

\* list <term>
ListByTitle(I) ==
    /\ pc = "shell"
    /\ file.exists
    /\ \E term \in I.terms :
          Invoke(InputArgs("IM_LIST", term, NULL, NULL, NULL),
                 Env(<<"\n">>, 1, NoPage, ZeroHeap))

\* list -tg <refs>
ListByTags(I) ==
    /\ pc = "shell"
    /\ file.exists
    /\ \E refs \in I.listTags, heap \in I.heaps :
          Invoke(InputArgs("IM_LIST", NULL, NULL, NULL, refs),
                 Env(<<"\n">>, 1, NoPage, heap))

\* open <id>
OpenRow(I) ==
    /\ pc = "shell"
    /\ file.exists
    /\ \E id \in I.rowRefs, viewer \in I.pages :
          Invoke(InputArgs("IM_OPEN", id, NULL, NULL, NULL),
                 Env(<<"\n">>, 1, viewer, ZeroHeap))

\* tag list <word>
ListTags(I) ==
    /\ pc = "shell"
    /\ file.exists
    /\ \E word \in I.terms :
          Invoke(InputArgs("IM_TAG_LIST", word, NULL, NULL, NULL),
                 Env(<<"\n">>, 1, NoPage, ZeroHeap))

Commands(I) ==
    \/ FirstRun(I)
    \/ AddRow(I)
    \/ UpdateRow(I)
    \/ RemoveRow(I)
    \/ AddTag(I)
    \/ AssignTagToRow(I)
    \/ RenameTag(I)
    \/ RemoveTag(I)

Next == Commands(Inputs) \/ ProcessExit

Spec == Init /\ [][Next]_vars

\* The invocations ID assignment is about: rows and tags are added and
\* removed, nothing else is run.
IdCommands(I) ==
    \/ FirstRun(I)
    \/ AddRow(I)
    \/ RemoveRow(I)
    \/ AddTag(I)
    \/ RemoveTag(I)

NextIds == IdCommands(Inputs) \/ ProcessExit

SpecIds == Init /\ [][NextIds]_vars

(***************************************************************************)
(* Properties.  They are stated on the state an invocation leaves          *)
(* (pc = "ended"): last is its command line and how it ended, prevFile the *)
(* savefile it found, loaded the Core ReadJSON built, core the Core        *)
(* ProcessCommand left, file the savefile after it.                        *)
(***************************************************************************)
Ended == pc = "ended"

Saved == pc = "ended" /\ last.status = "saved"

Ran(mode) == pc = "ended" /\ last.ia.input_mode = mode

\* A savefile entry without the separator that follows it.
Entry(line) == [line EXCEPT !.comma = FALSE]

Entries(lines) == [k \in 1..Len(lines) |-> Entry(lines[k])]

\* The ids of the tags (the rows) of a savefile.
KeysOf(lines) == {atoi(lines[k].key) : k \in 1..Len(lines)}

\* The live entries among the first count of an array, in array order.
LiveIn(arr, count) == SelectSeq(SubSeq(arr, 1, count), LAMBDA x : x.id # 0)

\* A tag reference denotes a tag: a number is the tag's id, anything else is
\* its name, whatever the case of its letters.
Denotes(ref, tag) ==
    IF isdigit(CharAt(ref, 0)) THEN atoi(ref) = tag.id
    ELSE stricmp(tag.name, ref) = 0

\* The reference denotes no live tag of the Core.
Unresolved(ref, c) ==
    \A k \in 1..c.tags.count :
        c.tags.tags[k].id # 0 => ~Denotes(ref, c.tags.tags[k])

\* C1: every row ID and every tag ID that an invocation assigns and saves is
\* strictly greater than every ID of its kind assigned earlier in the life of
\* the store (hwm, as the invocation found it), removed entries included.
IdsNeverReused ==
    /\ (Saved /\ Ran("IM_ADD")) =>
          At(core.table.rows, core.table.count - 1).id > last.hwm.row
    /\ (Saved /\ Ran("IM_TAG_ADD")) =>
          At(core.tags.tags, core.tags.count - 1).id > last.hwm.tag

\* C2: in every savefile reachable from the empty store, every non-zero tag
\* slot of every row is the id of a tag of the savefile.
NoDanglingTagRef ==
    \A k \in 1..Len(file.rows) : \A j \in 1..ROW_TAG_C :
        atoi(file.rows[k].tag_ids[j]) # 0 =>
            atoi(file.rows[k].tag_ids[j]) \in KeysOf(file.tags)

\* C3: a confirmed remove <id> that is saved takes row id out of the savefile
\* and nothing else: every other row of the savefile it found is still there
\* with the same url, title, comment, date and tag slots, and the tags are
\* the same.
RemoveRowRemovesOnlyThatRow ==
    (Saved /\ Ran("IM_REMOVE")) =>
        /\ Entries(file.tags) = Entries(prevFile.tags)
        /\ atoi(last.ia.mod) \notin KeysOf(file.rows)
        /\ \A i \in 1..Len(prevFile.rows) :
              atoi(prevFile.rows[i].key) # atoi(last.ia.mod) =>
                  \E k \in 1..Len(file.rows) :
                      Entry(file.rows[k]) = Entry(prevFile.rows[i])

\* The index (from 1) of the first live tag of the Core that the reference
\* denotes, 0 when it denotes none.
TagDenoted(ref, c) ==
    FirstOf({k \in 1..c.tags.count :
                c.tags.tags[k].id # 0 /\ Denotes(ref, c.tags.tags[k])}, 0)

\* The rows among the first count of the Core that hold id in a tag slot.
RowsHolding(c, id) ==
    {i \in 1..c.table.count :
        \E j \in 1..ROW_TAG_C : c.table.rows[i].tag_ids[j] = id}

\* C4: after a confirmed tag remove <ref> of a live tag T, T's id is 0 in the
\* Core, no row of the Core holds T's id in a tag slot, and neither does a
\* row of the savefile written, whatever the number of rows that held it.
RemoveTagClearsEveryRow ==
    (Saved /\ Ran("IM_TAG_REMOVE") /\ TagDenoted(last.ia.mod, loaded) # 0) =>
        LET k == TagDenoted(last.ia.mod, loaded)
            T == loaded.tags.tags[k].id
        IN  /\ core.tags.tags[k].id = 0
            /\ RowsHolding(core, T) = {}
            /\ T \notin KeysOf(file.tags)
            /\ \A i \in 1..Len(file.rows) : \A j \in 1..ROW_TAG_C :
                   atoi(file.rows[i].tag_ids[j]) # T

\* A confirmed tag remove of a live tag that two rows held has been saved.
RemoveTagOfTwoRows ==
    /\ Saved /\ Ran("IM_TAG_REMOVE")
    /\ TagDenoted(last.ia.mod, loaded) # 0
    /\ Cardinality(RowsHolding(loaded,
          loaded.tags.tags[TagDenoted(last.ia.mod, loaded)].id)) = 2

\* What a savefile says of a row, and what a Core holds of it.
RowFields(r) ==
    [id |-> r.id, url |-> IF r.url.long_url # 0 THEN r.url.l ELSE r.url.s,
     title |-> r.title, comment |-> r.comment,
     last_updated |-> r.last_updated, tag_ids |-> r.tag_ids]

RowsOf(c) ==
    [i \in 1..c.table.count |-> RowFields(c.table.rows[i])]

TagsOf(c) == SubSeq(c.tags.tags, 1, c.tags.count)

\* Every entry of the Core is live: none of the first count entries has id
\* 0, and no entry was removed since ReadJSON built it.
OnlyLive(c) ==
    /\ \A i \in 1..c.table.count : c.table.rows[i].id # 0
    /\ \A i \in 1..c.tags.count : c.tags.tags[i].id # 0
    /\ c.table.count >= loaded.table.count
    /\ c.tags.count >= loaded.tags.count

\* C5: the savefile WriteJSON writes from a Core whose entries are all live
\* is read back by ReadJSON as the same rows and the same tags in the same
\* order, with each counter 1 + the largest id (1 for an empty collection).
SaveLoadRoundTrip ==
    (Saved /\ OnlyLive(core)) =>
        /\ JsonParses(file)
        /\ RowsOf(ReadJSON(file, ZeroHeap)) = RowsOf(core)
        /\ TagsOf(ReadJSON(file, ZeroHeap)) = TagsOf(core)
        /\ ReadJSON(file, ZeroHeap).table.next_UID =
               1 + Highest(core.table.rows, core.table.count, 0)
        /\ ReadJSON(file, ZeroHeap).tags.next_UID =
               1 + Highest(core.tags.tags, core.tags.count, 0)

\* C6: in every savefile WriteJSON writes, the last tag printed and the last
\* row printed are followed by no separator, also when an entry was removed
\* in the run.
NoTrailingSeparator ==
    Saved =>
        /\ Len(file.tags) > 0 => ~file.tags[Len(file.tags)].comma
        /\ Len(file.rows) > 0 => ~file.rows[Len(file.rows)].comma

\* The ids of a sequence of entries, and the keys of a sequence of lines.
IdSeq(arr) == [k \in 1..Len(arr) |-> arr[k].id]

KeySeq(lines) == [k \in 1..Len(lines) |-> atoi(lines[k].key)]

\* C7: the keys of the savefile written are the non-zero ids of the entries
\* WriteJSON visits, in their order: an entry whose id is 0 is not printed
\* and "0" is never a key.
TombstonesNotEmitted ==
    Saved =>
        /\ KeySeq(file.tags) = IdSeq(LiveIn(core.tags.tags, core.tags.count))
        /\ KeySeq(file.rows) = IdSeq(LiveIn(core.table.rows, core.table.count))
        /\ \A k \in 1..Len(file.tags) : file.tags[k].key # <<"0">>
        /\ \A k \in 1..Len(file.rows) : file.rows[k].key # <<"0">>

\* A savefile has been written from a Core in which WriteJSON visited a tag
\* with id 0 next to a tag it printed.
SavedWithTombstone ==
    /\ Saved
    /\ \E i \in 1..core.tags.count : core.tags.tags[i].id = 0
    /\ Len(file.tags) > 0

\* C8: an invocation that ends before main calls WriteJSON (a name that is
\* not valid, a row that is not found, slots that are full, a page that is
\* not fetched, an answer that is not yes, at whatever token of a tag list)
\* leaves the savefile as it found it.
AbortLeavesSavefile ==
    (Ended /\ last.status \notin {"saved", "created"}) => file = prevFile

\* An update with a tag list has ended at a declined confirmation after it
\* had changed the row in memory.
AbortAfterChange ==
    /\ Ended /\ Ran("IM_UPDATE")
    /\ last.status = "declined"
    /\ HasSpace(last.ia.tag)
    /\ core # loaded
    /\ file = prevFile

\* The row of the Core whose id the command line gives, 0 when there is none.
RowDenoted(ref, c) ==
    FirstOf({i \in 1..c.table.count :
                /\ isdigit(CharAt(ref, 0))
                /\ c.table.rows[i].id # 0
                /\ c.table.rows[i].id = atoi(ref)}, 0)

\* C9: tag <id> <ref> and update <id> -tg <ref> on a row that exists, with a
\* reference that denotes no live tag, leave every tag slot of the row as it
\* was, and the savefile with it.
AssignUnresolvedTagFails ==
    (/\ Ran("IM_TAG_ADD_TO_ENTRY") \/ Ran("IM_UPDATE")
     /\ last.ia.tag # NULL
     /\ ~HasSpace(last.ia.tag)
     /\ RowDenoted(last.ia.mod, loaded) # 0
     /\ Unresolved(last.ia.tag, loaded)) =>
        /\ core.table.rows[RowDenoted(last.ia.mod, loaded)].tag_ids =
               loaded.table.rows[RowDenoted(last.ia.mod, loaded)].tag_ids
        /\ file = prevFile

\* C10: tag rename <ref> <name> with a reference that denotes no live tag
\* leaves the name of every tag as it was, in the Core and in the savefile.
RenameUnresolvedTagFails ==
    (Ran("IM_TAG_RENAME") /\ Unresolved(last.ia.mod, loaded)) =>
        /\ \A k \in 1..loaded.tags.count :
               core.tags.tags[k].name = loaded.tags.tags[k].name
        /\ file = prevFile

(***************************************************************************)
(* A store whose row holds ROW_TAG_C tags: one tag more than a row has     *)
(* slots, named a, b, c, ..., and a row that `add u -t t -tg "1 2 ... 8"`  *)
(* made at time 1.                                                         *)
(***************************************************************************)
FullFile ==
    [exists |-> TRUE,
     tags |-> [k \in 1..(ROW_TAG_C + 1) |->
                  [key |-> Itoa(k), name |-> <<LowerCase[k]>>,
                   comma |-> (k # ROW_TAG_C + 1)]],
     rows |-> <<[key |-> <<"1">>, url |-> <<"u">>, title |-> <<"t">>,
                 comment |-> <<>>, last_updated |-> Strftime(1),
                 tag_ids |-> [j \in 1..ROW_TAG_C |-> Itoa(j)],
                 comma |-> FALSE]>>]

FullInputs ==
    [update |-> {[title |-> NULL, comment |-> NULL, tag |-> <<"9">>],
                 [title |-> NULL, comment |-> NULL, tag |-> <<"i">>],
                 [title |-> <<"s">>, comment |-> NULL, tag |-> <<"9">>],
                 [title |-> NULL, comment |-> NULL, tag |-> <<"1">>]},
     rowRefs |-> {<<"1">>},
     tagRefs |-> {<<"9">>, <<"i">>, <<"1">>, <<"2">>},
     stdins |-> {Yes, No},
     times |-> {2},
     heaps |-> {ZeroHeap}]

InitFull ==
    /\ file = FullFile
    /\ pc = "shell"
    /\ prevFile = FullFile
    /\ loaded = EmptyCore
    /\ core = EmptyCore
    /\ last = NoRun
    /\ hwm = [row |-> 1, tag |-> ROW_TAG_C + 1]

NextFull ==
    \/ UpdateRow(FullInputs)
    \/ AssignTagToRow(FullInputs)
    \/ RemoveTag(FullInputs)
    \/ ProcessExit

SpecFull == InitFull /\ [][NextFull]_vars

\* The tag slots of a row are all taken, by ids that differ from one another.
SlotsFull(slots) ==
    /\ \A j \in 1..ROW_TAG_C : slots[j] # 0
    /\ \A j, k \in 1..ROW_TAG_C : j # k => slots[j] # slots[k]

\* tag <id> <ref> or update <id> -tg <ref> has run on a row that exists and
\* whose slots are full, with a reference to a live tag the row does not hold.
AssignedToFullRow ==
    /\ Ran("IM_TAG_ADD_TO_ENTRY") \/ Ran("IM_UPDATE")
    /\ last.ia.tag # NULL
    /\ ~HasSpace(last.ia.tag)
    /\ RowDenoted(last.ia.mod, loaded) # 0
    /\ TagDenoted(last.ia.tag, loaded) # 0
    /\ SlotsFull(loaded.table.rows[RowDenoted(last.ia.mod, loaded)].tag_ids)
    /\ \A j \in 1..ROW_TAG_C :
          loaded.table.rows[RowDenoted(last.ia.mod, loaded)].tag_ids[j] #
              loaded.tags.tags[TagDenoted(last.ia.tag, loaded)].id

\* C11: tag <id> <ref> and update <id> -tg <ref> of a live tag that the row
\* does not hold, on a row whose ROW_TAG_C slots hold distinct tag ids, end
\* at "Cannot add anymore tags": the tag slots and the date of the row are
\* as they were, in memory and in the savefile.
FullRowRefusesTag ==
    AssignedToFullRow =>
        /\ last.status = "slots full"
        /\ core.table.rows[RowDenoted(last.ia.mod, loaded)].tag_ids =
               loaded.table.rows[RowDenoted(last.ia.mod, loaded)].tag_ids
        /\ core.table.rows[RowDenoted(last.ia.mod, loaded)].last_updated =
               loaded.table.rows[RowDenoted(last.ia.mod, loaded)].last_updated
        /\ file = prevFile

\* update 1 -tg i, the ninth tag by its name, has been refused on the full
\* row.
FullRowRefusedByName ==
    /\ AssignedToFullRow
    /\ Ran("IM_UPDATE")
    /\ ~isdigit(CharAt(last.ia.tag, 0))
    /\ last.status = "slots full"

(***************************************************************************)
(* The same command line run twice: the process has ended, and the shell   *)
(* starts the program again with the arguments it had.  prevFile and       *)
(* loaded stay what the first of the two invocations found.                *)
(***************************************************************************)
ToggleInputs ==
    [add |-> {[title |-> <<"t">>, comment |-> NULL, tag |-> NULL]},
     update |-> {[title |-> NULL, comment |-> NULL, tag |-> <<"1">>],
                 [title |-> NULL, comment |-> NULL, tag |-> <<"b">>]},
     rowRefs |-> {<<"1">>},
     tagNames |-> {<<"a">>, <<"b">>},
     tagRefs |-> {<<"1">>, <<"b">>},
     stdins |-> {Yes, No},
     times |-> {1},
     pages |-> {NoPage},
     heaps |-> {ZeroHeap}]

Repeat(I) ==
    /\ pc = "ended"
    /\ last.ia.input_mode \in {"IM_TAG_ADD_TO_ENTRY", "IM_UPDATE"}
    /\ \E stdin \in I.stdins :
       \E m \in {Main(file, last.ia, Env(stdin, last.now, NoPage, ZeroHeap))} :
          /\ pc' = "twice"
          /\ file' = m.file
          /\ core' = m.core
          /\ last' = [ia |-> last.ia, status |-> m.status, now |-> last.now,
                      hwm |-> last.hwm, out |-> m.out,
                      first |-> last.status]
          /\ UNCHANGED <<prevFile, loaded, hwm>>

\* The second process ends.
EndPair ==
    /\ pc = "twice"
    /\ pc' = "shell"
    /\ prevFile' = file
    /\ loaded' = EmptyCore
    /\ core' = EmptyCore
    /\ last' = NoRun
    /\ UNCHANGED <<file, hwm>>

NextToggle ==
    \/ FirstRun(ToggleInputs)
    \/ AddRow(ToggleInputs)
    \/ AddTag(ToggleInputs)
    \/ AssignTagToRow(ToggleInputs)
    \/ UpdateRow(ToggleInputs)
    \/ Repeat(ToggleInputs)
    \/ ProcessExit
    \/ EndPair

SpecToggle == Init /\ [][NextToggle]_vars

\* The tag ids the savefile holds in the slots of the row whose key is id.
TagSetOf(f, id) ==
    {atoi(f.rows[k].tag_ids[j]) :
        k \in {i \in 1..Len(f.rows) : atoi(f.rows[i].key) = id},
        j \in 1..ROW_TAG_C} \ {0}

\* Two invocations with the same row and the same reference to a live tag
\* have run, and no prompt was answered with no.
ToggledTwice ==
    /\ pc = "twice"
    /\ last.ia.tag # NULL
    /\ ~HasSpace(last.ia.tag)
    /\ RowDenoted(last.ia.mod, loaded) # 0
    /\ TagDenoted(last.ia.tag, loaded) # 0
    /\ last.first # "declined"
    /\ last.status # "declined"

\* C12: after tag <id> <ref> (or update <id> -tg <ref>) has run twice with
\* the same live tag on the same row, every prompt answered with yes, the row
\* of the savefile holds the set of tag ids it held before the two runs.
ToggleTwiceRestores ==
    ToggledTwice =>
        TagSetOf(file, atoi(last.ia.mod)) = TagSetOf(prevFile, atoi(last.ia.mod))

\* The ids of the live tags that the tokens of a tag list denote, token by
\* token (0 for a token that denotes none).
ListIds(list, c) ==
    [k \in 1..Len(strtok(list)) |->
        IF TagDenoted(strtok(list)[k], c) = 0 THEN 0
        ELSE c.tags.tags[TagDenoted(strtok(list)[k], c)].id]

\* update <id> -tg "<ref> <ref> ..." has run on a row that exists, with
\* references to live tags that differ from one another, none of them on the
\* row, and the row had a free slot for each.
UpdatedWithFreshList ==
    /\ Ran("IM_UPDATE")
    /\ last.ia.tag # NULL
    /\ HasSpace(last.ia.tag)
    /\ RowDenoted(last.ia.mod, loaded) # 0
    /\ \A k \in 1..Len(ListIds(last.ia.tag, loaded)) :
          /\ ListIds(last.ia.tag, loaded)[k] # 0
          /\ \A j \in 1..ROW_TAG_C :
                loaded.table.rows[RowDenoted(last.ia.mod, loaded)].tag_ids[j] #
                    ListIds(last.ia.tag, loaded)[k]
          /\ \A n \in 1..Len(ListIds(last.ia.tag, loaded)) :
                n # k => ListIds(last.ia.tag, loaded)[n] #
                             ListIds(last.ia.tag, loaded)[k]
    /\ Cardinality({j \in 1..ROW_TAG_C :
          loaded.table.rows[RowDenoted(last.ia.mod, loaded)].tag_ids[j] = 0})
            >= Len(ListIds(last.ia.tag, loaded))

\* C13: update <id> -tg with a list of k references to distinct live tags,
\* none on the row and k slots free, is saved and leaves each of the k tags
\* in a slot of the row.
UpdateListAddsEach ==
    UpdatedWithFreshList =>
        /\ last.status = "saved"
        /\ \A k \in 1..Len(ListIds(last.ia.tag, loaded)) :
              \E j \in 1..ROW_TAG_C :
                  core.table.rows[RowDenoted(last.ia.mod, loaded)].tag_ids[j] =
                      ListIds(last.ia.tag, loaded)[k]

(***************************************************************************)
(* Stores to list: savefiles of two rows, as add and tag leave them.  One  *)
(* family has every title up to MaxTitleLen letters in its first row, the  *)
(* other has three tags and rows that hold some of them.                   *)
(***************************************************************************)
\* The strings of at most n characters of A.
StringsUpTo(A, n) == UNION {[1..k -> A] : k \in 0..n}

\* The tag slots of a row that holds ids in its first slots.
Slots(ids) == [j \in 1..ROW_TAG_C |-> IF j <= Len(ids) THEN ids[j] ELSE 0]

StoredTag(id, name) == [key |-> Itoa(id), name |-> name, comma |-> TRUE]

StoredRow(id, title, ids) ==
    [key |-> Itoa(id), url |-> <<"u">>, title |-> title, comment |-> <<>>,
     last_updated |-> Strftime(1),
     tag_ids |-> [j \in 1..ROW_TAG_C |-> Itoa(Slots(ids)[j])], comma |-> TRUE]

\* The savefile of these tags and rows: a separator after each but the last.
FileOf(tags, rows) ==
    [exists |-> TRUE,
     tags |-> [k \in 1..Len(tags) |->
                  [tags[k] EXCEPT !.comma = (k # Len(tags))]],
     rows |-> [k \in 1..Len(rows) |->
                  [rows[k] EXCEPT !.comma = (k # Len(rows))]]]

TitleFiles ==
    {FileOf(<<>>, <<StoredRow(1, t1, <<>>), StoredRow(2, t2, <<>>)>>) :
        t1 \in StringsUpTo({"a", "b"}, MaxTitleLen) \cup {<<"A", "b">>},
        t2 \in {<<"a", "b">>, <<"B", "a">>}}

TagFiles ==
    {FileOf(<<StoredTag(1, <<"a">>), StoredTag(2, <<"b">>),
              StoredTag(3, <<"c">>)>>,
            <<StoredRow(1, <<"t">>, s1), StoredRow(2, <<"s">>, s2)>>) :
        s1, s2 \in {<<>>, <<1>>, <<2>>, <<1, 2>>, <<3>>}}

ListInputs ==
    [terms |-> StringsUpTo({"a", "b", "A"}, MaxTermLen)
                  \cup {<<"a", "l", "l">>, <<"A", "L", "L">>},
     listTags |-> {<<"1">>, <<"2">>, <<"a">>, <<"1", " ", "2">>,
                   <<"a", " ", "b">>, <<"1", " ", "2", " ", "3">>},
     heaps |-> {ZeroHeap, DirtyHeap}]

InitList ==
    /\ file \in TitleFiles \cup TagFiles
    /\ pc = "shell"
    /\ prevFile = file
    /\ loaded = EmptyCore
    /\ core = EmptyCore
    /\ last = NoRun
    /\ hwm = [row |-> 2, tag |-> Len(file.tags)]

NextList ==
    \/ ListByTitle(ListInputs)
    \/ ListByTags(ListInputs)
    \/ ProcessExit

SpecList == InitList /\ [][NextList]_vars

\* The numbers that lead the lines printed, as a set and as a sequence.
Labels(out) == {out[k].label : k \in 1..Len(out)}

LabelSeq(out) == [k \in 1..Len(out) |-> out[k].label]

\* The positions of the live rows of the Core that hold, in some slot, the id
\* of a tag that a token of the list denotes.
HoldingAny(list, c) ==
    {i \in 0..(c.table.count - 1) :
        /\ At(c.table.rows, i).id # 0
        /\ \E k \in 1..Len(ListIds(list, c)) :
              RowHasTagId(At(c.table.rows, i), ListIds(list, c)[k])}

\* C14: list -tg with one or more references, each to a live tag, prints
\* exactly the live rows that hold the id of at least one of these tags in a
\* slot (each is printed with its position in the table).
ListByTagsIsUnion ==
    (/\ Ran("IM_LIST")
     /\ last.ia.tag # NULL
     /\ \A k \in 1..Len(ListIds(last.ia.tag, loaded)) :
           ListIds(last.ia.tag, loaded)[k] # 0) =>
        /\ last.status = "saved"
        /\ Labels(last.out) = HoldingAny(last.ia.tag, loaded)

\* term occurs in title, whatever the case of the letters.
Contains(title, term) ==
    \E off \in 0..(Len(title) - Len(term)) :
        \A i \in 1..Len(term) : toupper(title[off + i]) = toupper(term[i])

\* The ids of the live rows of the Core whose title contains term, in the
\* order of the table.
IdsTitled(term, c) ==
    IdSeq(SelectSeq(LiveIn(c.table.rows, c.table.count),
                    LAMBDA r : Contains(r.title, term)))

\* C15 as stated: list <term> prints, in the order of the table, the live
\* rows whose title contains the term whatever the case of the letters, and
\* the term "all" prints every live row.
ListByTitleFindsTerm ==
    (Ran("IM_LIST") /\ last.ia.mod # NULL) =>
        /\ last.status = "saved"
        /\ LabelSeq(last.out) =
               IF last.ia.mod = <<"a", "l", "l">>
               THEN IdSeq(LiveIn(loaded.table.rows, loaded.table.count))
               ELSE IdsTitled(last.ia.mod, loaded)

\* C15, amended: the same, with every term that is "all" whatever the case
\* of its letters ("ALL", "All") printing every live row.
ListByTitleFindsTermOrAll ==
    (Ran("IM_LIST") /\ last.ia.mod # NULL) =>
        /\ last.status = "saved"
        /\ LabelSeq(last.out) =
               IF stricmp(last.ia.mod, <<"a", "l", "l">>) = 0
               THEN IdSeq(LiveIn(loaded.table.rows, loaded.table.count))
               ELSE IdsTitled(last.ia.mod, loaded)

\* list aab has printed the row whose title is aaab: the match starts inside
\* the partial match aa.
FoundAfterPartialMatch ==
    /\ Ran("IM_LIST")
    /\ last.ia.mod = <<"a", "a", "b">>
    /\ loaded.table.rows[1].title = <<"a", "a", "a", "b">>
    /\ 1 \in Labels(last.out)

(***************************************************************************)
(* Rows added with tags given by name and with lists of tags, then tagged  *)
(* and listed.                                                             *)
(***************************************************************************)
SlotInputs ==
    [add |-> {[title |-> <<"t">>, comment |-> NULL, tag |-> <<"A">>],
              [title |-> <<"t">>, comment |-> NULL, tag |-> <<"a">>],
              [title |-> <<"t">>, comment |-> NULL,
               tag |-> <<"1", " ", "1">>]},
     update |-> {[title |-> NULL, comment |-> NULL, tag |-> <<"1">>]},
     rowRefs |-> {<<"1">>, <<"2">>},
     tagNames |-> {<<"a">>, <<"b">>},
     tagRefs |-> {<<"1">>, <<"a">>},
     listTags |-> {<<"A">>, <<"a">>, <<"z">>},
     stdins |-> {Yes, No},
     times |-> {1},
     pages |-> {NoPage},
     heaps |-> {ZeroHeap, DirtyHeap}]

NextSlots ==
    \/ FirstRun(SlotInputs)
    \/ AddRow(SlotInputs)
    \/ UpdateRow(SlotInputs)
    \/ AddTag(SlotInputs)
    \/ AssignTagToRow(SlotInputs)
    \/ ListByTags(SlotInputs)
    \/ ProcessExit

SpecSlots == Init /\ [][NextSlots]_vars

\* The command has run with -tg and one reference that is a name.
RanWithName(mode) ==
    /\ Ran(mode)
    /\ last.ia.tag # NULL
    /\ ~HasSpace(last.ia.tag)
    /\ ~isdigit(CharAt(last.ia.tag, 0))

\* C16: add <url> -tg <name> that is saved leaves, in the new row, the id of
\* the live tag whose name is <name> whatever the case of the letters, and
\* no tag when there is no such tag; list -tg <name> ends at "Could not find
\* tag" exactly when no live tag has that name.
NameResolvesIgnoringCase ==
    /\ (RanWithName("IM_ADD") /\ last.status = "saved") =>
          At(core.table.rows, core.table.count - 1).tag_ids[1] =
              IF TagDenoted(last.ia.tag, loaded) = 0 THEN 0
              ELSE loaded.tags.tags[TagDenoted(last.ia.tag, loaded)].id
    /\ RanWithName("IM_LIST") =>
          (last.status = "tag not found") = Unresolved(last.ia.tag, loaded)

\* C19: no row of a savefile holds the same tag id, other than 0, in two of
\* its slots.
NoDuplicateSlots ==
    \A i \in 1..Len(file.rows) : \A j, k \in 1..ROW_TAG_C :
        (j # k /\ file.rows[i].tag_ids[j] = file.rows[i].tag_ids[k]) =>
            atoi(file.rows[i].tag_ids[j]) = 0

(***************************************************************************)
(* Rows with titles, comments and tags, updated with -t or -c alone.       *)
(***************************************************************************)
EditInputs ==
    [add |-> {[title |-> <<"t">>, comment |-> <<"c">>, tag |-> NULL],
              [title |-> <<"s">>, comment |-> NULL, tag |-> NULL]},
     update |-> {[title |-> NULL, comment |-> <<"n">>, tag |-> NULL],
                 [title |-> <<"r">>, comment |-> NULL, tag |-> NULL]},
     rowRefs |-> {<<"1">>, <<"2">>},
     tagNames |-> {<<"a">>},
     tagRefs |-> {<<"1">>},
     stdins |-> {Yes},
     times |-> {1, 2},
     pages |-> {NoPage},
     heaps |-> {ZeroHeap}]

NextEdit ==
    \/ FirstRun(EditInputs)
    \/ AddRow(EditInputs)
    \/ AddTag(EditInputs)
    \/ AssignTagToRow(EditInputs)
    \/ UpdateRow(EditInputs)
    \/ ProcessExit

SpecEdit == Init /\ [][NextEdit]_vars

\* The place in the savefile of the first row whose key is id, 0 when no row
\* has it.
LineOf(f, id) == FirstOf({k \in 1..Len(f.rows) : atoi(f.rows[k].key) = id}, 0)

\* update <id> has run with -c alone, or with -t alone, on a row that the
\* savefile holds.
UpdatedTextOnly ==
    /\ Ran("IM_UPDATE")
    /\ last.ia.tag = NULL
    /\ (last.ia.comment = NULL) # (last.ia.title = NULL)
    /\ isdigit(CharAt(last.ia.mod, 0))
    /\ LineOf(prevFile, atoi(last.ia.mod)) # 0

\* C17: update <id> -c <comment> on a row that exists is saved and changes,
\* in the savefile, only the comment and the date of that row: its key, url,
\* title and tag slots, every other row and every tag are as they were, and
\* the two counters of the Core are as ReadJSON set them; update <id> -t
\* <title> changes only the title and the date in the same way.
UpdateTextChangesOnlyText ==
    UpdatedTextOnly =>
        /\ last.status = "saved"
        /\ file = [prevFile EXCEPT
                      !.rows[LineOf(prevFile, atoi(last.ia.mod))] =
                          [@ EXCEPT
                             !.comment = IF last.ia.comment # NULL
                                         THEN last.ia.comment ELSE @,
                             !.title = IF last.ia.title # NULL
                                       THEN last.ia.title ELSE @,
                             !.last_updated = Strftime(last.now)]]
        /\ core.table.next_UID = loaded.table.next_UID
        /\ core.tags.next_UID = loaded.tags.next_UID

\* update <id> -c n has been saved for a row with a title, a comment, a tag
\* and an older date, next to another row.
CommentUpdatedAlone ==
    /\ UpdatedTextOnly
    /\ Saved
    /\ last.ia.comment # NULL
    /\ Len(prevFile.rows) = 2
    /\ prevFile.rows[LineOf(prevFile, atoi(last.ia.mod))].title # <<>>
    /\ prevFile.rows[LineOf(prevFile, atoi(last.ia.mod))].comment = <<"c">>
    /\ prevFile.rows[LineOf(prevFile, atoi(last.ia.mod))].tag_ids[1] = <<"1">>
    /\ prevFile.rows[LineOf(prevFile, atoi(last.ia.mod))].last_updated # Strftime(last.now)

\* C18: in every savefile, no two tags have names that are equal when the
\* case of the letters is ignored.
TagNamesUnique ==
    \A j, k \in 1..Len(file.tags) :
        j # k => stricmp(file.tags[j].name, file.tags[k].name) # 0

\* C20: in every savefile the keys of the rows differ from one another, and
\* so do the keys of the tags; no key is 0, and the id that a saved add or
\* tag add gives to the new row or tag is not 0.
IdsUniqueAndPositive ==
    /\ \A j, k \in 1..Len(file.rows) :
          j # k => atoi(file.rows[j].key) # atoi(file.rows[k].key)
    /\ \A j, k \in 1..Len(file.tags) :
          j # k => atoi(file.tags[j].key) # atoi(file.tags[k].key)
    /\ 0 \notin KeysOf(file.rows) \cup KeysOf(file.tags)
    /\ (Saved /\ Ran("IM_ADD")) =>
          At(core.table.rows, core.table.count - 1).id # 0
    /\ (Saved /\ Ran("IM_TAG_ADD")) =>
          At(core.tags.tags, core.tags.count - 1).id # 0

\* A tag add has been saved next to a tag that was there, with an id that an
\* earlier, removed tag had.
TagAddedWithOldId ==
    /\ Saved /\ Ran("IM_TAG_ADD")
    /\ Len(file.tags) = 2
    /\ At(core.tags.tags, core.tags.count - 1).id <= last.hwm.tag

(***************************************************************************)
(* Tags added and renamed with names of every kind: a letter, words with a *)
(* blank, a digit first, reserved words, and a name as long as name[].     *)
(***************************************************************************)
LongName == [i \in 1..TAG_NAME_S |-> "x"]

NameInputs ==
    [tagNames |-> {<<"a">>, <<"w", " ", "s">>, <<"3", "a">>,
                   <<"a", "d", "d">>, <<"R", "e", "m", "o", "v", "e">>,
                   LongName},
     tagRefs |-> {<<"1">>, <<"a">>},
     newNames |-> {<<"1", "a">>, <<"c">>},
     stdins |-> {Yes, No},
     times |-> {1},
     heaps |-> {ZeroHeap}]

NextNames ==
    \/ FirstRun(NameInputs)
    \/ AddTag(NameInputs)
    \/ RenameTag(NameInputs)
    \/ RemoveTag(NameInputs)
    \/ ProcessExit

SpecNames == Init /\ [][NextNames]_vars

\* The name with '-' for every blank.
Dashed(name) == [i \in 1..Len(name) |-> IF name[i] = " " THEN "-" ELSE name[i]]

\* C21: tag add <name> on a store that loads, with a name that starts with
\* a digit or is a reserved word (whatever the case of its letters), ends
\* at "Invalid tag name" and leaves the tags, the tag counter and the
\* savefile as they were; with any other name it is saved and adds one tag,
\* whose id is the tag counter as ReadJSON set it and whose name is <name>
\* with '-' for every blank, after the tags that were there.
AddTagValidates ==
    (Ran("IM_TAG_ADD") /\ prevFile.exists /\ last.status # "load failed") =>
        IF \/ isdigit(CharAt(last.ia.mod, 0))
           \/ \E w \in ReservedWords : stricmp(last.ia.mod, w) = 0
        THEN /\ last.status = "invalid tag name"
             /\ core.tags = loaded.tags
             /\ file = prevFile
        ELSE /\ last.status = "saved"
             /\ core.tags.count = loaded.tags.count + 1
             /\ core.tags.next_UID = loaded.tags.next_UID + 1
             /\ SubSeq(core.tags.tags, 1, loaded.tags.count) =
                    SubSeq(loaded.tags.tags, 1, loaded.tags.count)
             /\ At(core.tags.tags, loaded.tags.count) =
                    [id |-> loaded.tags.next_UID, name |-> Dashed(last.ia.mod)]
             /\ file.tags[Len(file.tags)].name = Dashed(last.ia.mod)
             /\ atoi(file.tags[Len(file.tags)].key) = loaded.tags.next_UID

\* C22: tag rename <ref> <name> with a reference to a live tag and a name
\* that starts with a digit is not saved and leaves the name of the tag as
\* it was; no tag of a savefile has a name that starts with a digit.
RenameRejectsDigitName ==
    /\ (/\ Ran("IM_TAG_RENAME")
        /\ ~Unresolved(last.ia.mod, loaded)
        /\ isdigit(CharAt(last.ia.tag, 0))) =>
           /\ last.status # "saved"
           /\ file = prevFile
    /\ \A k \in 1..Len(file.tags) : ~isdigit(CharAt(file.tags[k].name, 0))

(***************************************************************************)
(* The first invocations: every kind of command is tried with no savefile, *)
(* and then on the savefile that was created.                              *)
(***************************************************************************)
BootInputs ==
    [add |-> {[title |-> <<"t">>, comment |-> NULL, tag |-> NULL]},
     rowRefs |-> {<<"1">>},
     tagNames |-> {<<"a">>, <<"b">>},
     terms |-> {<<"a", "l", "l">>},
     stdins |-> {Yes, No},
     times |-> {1},
     pages |-> {NoPage},
     heaps |-> {ZeroHeap}]

\* The command lines of add, remove, list and tag add.
BootArgs(I) ==
    {InputArgs("IM_ADD", <<"u">>, a.title, a.comment, a.tag) : a \in I.add}
    \cup {InputArgs("IM_REMOVE", id, NULL, NULL, NULL) : id \in I.rowRefs}
    \cup {InputArgs("IM_LIST", term, NULL, NULL, NULL) : term \in I.terms}
    \cup {InputArgs("IM_TAG_ADD", name, NULL, NULL, NULL) : name \in I.tagNames}

\* An invocation that finds no savefile, whatever its command.
Boot(I) ==
    /\ pc = "shell"
    /\ ~file.exists
    /\ \E ia \in BootArgs(I), stdin \in I.stdins :
          Invoke(ia, Env(stdin, 1, NoPage, ZeroHeap))

NextBoot ==
    \/ Boot(BootInputs)
    \/ AddRow(BootInputs)
    \/ RemoveRow(BootInputs)
    \/ ListByTitle(BootInputs)
    \/ AddTag(BootInputs)
    \/ ProcessExit

SpecBoot == Init /\ [][NextBoot]_vars

\* C23: an invocation that finds no savefile ends at the prompt of
\* ReadJSON: answered with yes, it leaves the savefile of a Core with no
\* row, no tag and both counters at 1; answered otherwise, it leaves no
\* savefile; in both cases the command is not run (nothing is printed,
\* nothing is added).  An invocation that finds the savefile so created
\* runs its command on a Core with no row, no tag and both counters at 1.
FirstRunOnlyCreates ==
    /\ (Ended /\ ~prevFile.exists) =>
          /\ last.status \in {"created", "no file"}
          /\ last.out = <<>>
          /\ IF last.status = "created"
             THEN /\ file = [exists |-> TRUE, tags |-> <<>>, rows |-> <<>>]
                  /\ core.table.count = 0 /\ core.tags.count = 0
                  /\ core.table.next_UID = 1 /\ core.tags.next_UID = 1
             ELSE file = NoFile
    /\ (Ended /\ prevFile = [exists |-> TRUE, tags |-> <<>>, rows |-> <<>>]) =>
          /\ last.status \notin {"created", "no file", "load failed"}
          /\ loaded.table.count = 0 /\ loaded.tags.count = 0
          /\ loaded.table.next_UID = 1 /\ loaded.tags.next_UID = 1

\* add u -t t has found no savefile and ended having created it, with no
\* row in it.
CreatedInsteadOfAdd ==
    /\ Ran("IM_ADD")
    /\ ~prevFile.exists
    /\ last.status = "created"
    /\ file.exists /\ file.rows = <<>>

(***************************************************************************)
(* Savefiles written by hand: a tag and two rows, the first with a date    *)
(* and time and a tag array of every kind.                                 *)
(***************************************************************************)
\* 2001-01-01 03:04:05
FullStamp ==
    <<"2", "0", "0", "1", "-", "0", "1", "-", "0", "1", " ",
      "0", "3", ":", "0", "4", ":", "0", "5">>

Stamps == {FullStamp, Strftime(1), <<"x">>, <<>>, FullStamp \o <<"0">>}

TagArrays ==
    {[j \in 1..n |-> IF j > ROW_TAG_C THEN <<"1">> ELSE <<"0">>] :
        n \in {0, 1, ROW_TAG_C - 1, ROW_TAG_C, ROW_TAG_C + 1}}

LoadFiles ==
    {FileOf(<<StoredTag(1, <<"a">>)>>,
            <<[StoredRow(1, <<"t">>, <<>>) EXCEPT
                  !.comment = <<"c">>, !.last_updated = stamp, !.tag_ids = ids],
              [StoredRow(2, <<"s">>, <<1>>) EXCEPT
                  !.last_updated = FullStamp]>>) :
        stamp \in Stamps, ids \in TagArrays}

LoadInputs ==
    [update |-> {[title |-> <<"r">>, comment |-> NULL, tag |-> NULL]},
     rowRefs |-> {<<"1">>, <<"2">>},
     tagNames |-> {<<"b">>},
     terms |-> {<<"a", "l", "l">>},
     stdins |-> {Yes},
     times |-> {2},
     heaps |-> {ZeroHeap}]

InitLoad ==
    /\ file \in LoadFiles
    /\ pc = "shell"
    /\ prevFile = file
    /\ loaded = EmptyCore
    /\ core = EmptyCore
    /\ last = NoRun
    /\ hwm = [row |-> 2, tag |-> 1]

NextLoad ==
    \/ ListByTitle(LoadInputs)
    \/ UpdateRow(LoadInputs)
    \/ AddTag(LoadInputs)
    \/ ProcessExit

SpecLoad == InitLoad /\ [][NextLoad]_vars

\* The text has the form YYYY-MM-DD HH:MM:SS.
IsTimestamp(s) ==
    /\ Len(s) = 19
    /\ \A i \in 1..19 :
          IF i \in {5, 8} THEN s[i] = "-"
          ELSE IF i = 11 THEN s[i] = " "
          ELSE IF i \in {14, 17} THEN s[i] = ":"
          ELSE isdigit(s[i])

\* C24: an invocation that finds a savefile with a row whose date and time
\* are not of the form YYYY-MM-DD HH:MM:SS ends in ReadJSON, before its
\* command, and leaves the savefile as it was.
BadTimestampIsFatal ==
    (/\ Ended
     /\ prevFile.exists
     /\ \E k \in 1..Len(prevFile.rows) :
           ~IsTimestamp(prevFile.rows[k].last_updated)) =>
        /\ last.status = "load failed"
        /\ file = prevFile

\* C25: an invocation that finds a savefile with a row whose tag array has
\* not ROW_TAG_C elements (fewer, none, more) ends in ReadJSON, before its
\* command, and leaves the savefile as it was; no row that ReadJSON builds
\* has a comment other than the one the savefile gives it.
BadTagArrayIsFatal ==
    /\ (/\ Ended
        /\ prevFile.exists
        /\ \E k \in 1..Len(prevFile.rows) :
              Len(prevFile.rows[k].tag_ids) # ROW_TAG_C) =>
           /\ last.status = "load failed"
           /\ file = prevFile
    /\ (Ended /\ prevFile.exists) =>
           \A k \in 1..loaded.table.count :
               loaded.table.rows[k].comment = prevFile.rows[k].comment

(***************************************************************************)
(* Rows added to the store of FullFile and updated, with titles and        *)
(* comments as long as their arrays and with lists of up to ROW_TAG_C + 1  *)
(* tags.                                                                   *)
(***************************************************************************)
\* A text of n characters.
TextOf(ch, n) == [i \in 1..n |-> ch]

RECURSIVE TagList(_)
\* The list "1 2 ... n" of the ids of the first n tags.
TagList(n) == IF n = 1 THEN Itoa(1) ELSE TagList(n - 1) \o <<" ">> \o Itoa(n)

WideInputs ==
    [add |-> {[title |-> TextOf("x", TITLE_S), comment |-> NULL, tag |-> NULL],
              [title |-> TextOf("x", TITLE_S - 1),
               comment |-> TextOf("y", COMMENT_S), tag |-> NULL],
              [title |-> <<"t">>, comment |-> <<"c">>,
               tag |-> TagList(ROW_TAG_C)],
              [title |-> <<"t">>, comment |-> <<"c">>,
               tag |-> TagList(ROW_TAG_C + 1)]},
     update |-> {[title |-> TextOf("x", TITLE_S + 1), comment |-> NULL,
                  tag |-> NULL],
                 [title |-> NULL, comment |-> TextOf("y", COMMENT_S - 1),
                  tag |-> NULL],
                 [title |-> <<"r">>, comment |-> TextOf("y", COMMENT_S),
                  tag |-> NULL]},
     rowRefs |-> {<<"1">>, <<"2">>},
     stdins |-> {Yes},
     times |-> {2},
     pages |-> {NoPage},
     heaps |-> {ZeroHeap}]

NextWide ==
    \/ AddRow(WideInputs)
    \/ UpdateRow(WideInputs)
    \/ ProcessExit

SpecWide == InitFull /\ [][NextWide]_vars

\* stored is src when src has at most bound characters; else it has bound
\* characters, the last three of them dots after the first of src.
StoredWithin(src, stored, bound) ==
    /\ Len(stored) <= bound
    /\ IF Len(src) <= bound THEN stored = src
       ELSE /\ Len(stored) = bound
            /\ SubSeq(stored, bound - 2, bound) = <<".", ".", ".">>
            /\ SubSeq(stored, 1, bound - 3) = SubSeq(src, 1, bound - 3)

\* The row of the Core that the add or the update just saved has written.
RowWritten ==
    IF last.ia.input_mode = "IM_ADD"
    THEN At(core.table.rows, core.table.count - 1)
    ELSE core.table.rows[RowDenoted(last.ia.mod, loaded)]

\* C26: add and update <id> that are saved, with -t (with -c) and no -tg,
\* leave in the row the title (the comment) as given when it has at most
\* TITLE_S - 1 (COMMENT_S - 1) characters, and cut to that many characters,
\* the last three of them an ellipsis, when it has more; the text left is
\* never longer than that.
TruncationEndsWithEllipsis ==
    (Saved /\ (Ran("IM_ADD") \/ Ran("IM_UPDATE")) /\ last.ia.tag = NULL) =>
        /\ last.ia.title # NULL =>
               StoredWithin(last.ia.title, RowWritten.title, TITLE_S - 1)
        /\ last.ia.comment # NULL =>
               StoredWithin(last.ia.comment, RowWritten.comment, COMMENT_S - 1)

\* C28: add <url> -t <title> -c <comment> -tg <list> that is saved leaves a
\* new row with ROW_TAG_C tag slots, the url, the title and the comment
\* given, and every other row of the savefile as it was, however many
\* tags the list names.
AddListStaysInSlots ==
    (/\ Saved /\ Ran("IM_ADD")
     /\ last.ia.tag # NULL /\ HasSpace(last.ia.tag)
     /\ last.ia.title # NULL /\ last.ia.comment # NULL) =>
        /\ Len(file.rows) = Len(prevFile.rows) + 1
        /\ Len(file.rows[Len(file.rows)].tag_ids) = ROW_TAG_C
        /\ file.rows[Len(file.rows)].url = last.ia.mod
        /\ StoredWithin(last.ia.title, file.rows[Len(file.rows)].title,
                        TITLE_S - 1)
        /\ StoredWithin(last.ia.comment, file.rows[Len(file.rows)].comment,
                        COMMENT_S - 1)
        /\ Entries(SubSeq(file.rows, 1, Len(prevFile.rows))) =
               Entries(prevFile.rows)

\* C27: tag remove <ref> with a reference that denotes no live tag, whatever
\* is answered at its prompt, leaves the id of every tag and the tag slots
\* of every row of the Core as ReadJSON built them, and the tags of the
\* savefile as they were.
RemoveUnresolvedTagRemovesNothing ==
    (Ran("IM_TAG_REMOVE") /\ Unresolved(last.ia.mod, loaded)) =>
        /\ \A k \in 1..loaded.tags.count :
               core.tags.tags[k].id = loaded.tags.tags[k].id
        /\ \A k \in 1..loaded.table.count :
               core.table.rows[k].tag_ids = loaded.table.rows[k].tag_ids
        /\ Entries(file.tags) = Entries(prevFile.tags)

(***************************************************************************)
(* Stores made with add, tag add and tag <id> <ref>, then listed and       *)
(* opened.                                                                 *)
(***************************************************************************)
ReadInputs ==
    [add |-> {[title |-> <<"t">>, comment |-> <<"c">>, tag |-> NULL],
              [title |-> NULL, comment |-> NULL, tag |-> <<"1">>]},
     rowRefs |-> {<<"1">>, <<"2">>},
     tagNames |-> {<<"a">>, LongName},
     tagRefs |-> {<<"1">>},
     terms |-> {<<"a", "l", "l">>, <<"t">>},
     listTags |-> {<<"1">>, <<"a">>, <<"1", " ", "2">>},
     stdins |-> {Yes},
     times |-> {1},
     pages |-> {NoPage, Page(<<"t">>)},
     heaps |-> {ZeroHeap}]

NextRead ==
    \/ FirstRun(ReadInputs)
    \/ AddRow(ReadInputs)
    \/ AddTag(ReadInputs)
    \/ AssignTagToRow(ReadInputs)
    \/ RemoveRow(ReadInputs)
    \/ ListByTitle(ReadInputs)
    \/ ListByTags(ReadInputs)
    \/ ListTags(ReadInputs)
    \/ OpenRow(ReadInputs)
    \/ ProcessExit

SpecRead == Init /\ [][NextRead]_vars

\* C29: list <term>, list all, list -tg <refs>, tag list all and open <id>
\* leave the savefile with the tags and the rows it had, whether they end in
\* WriteJSON or before it, and leave the two counters of the Core as
\* ReadJSON set them.
ReadOnlyLeavesStore ==
    (Ran("IM_LIST") \/ Ran("IM_TAG_LIST") \/ Ran("IM_OPEN")) =>
        /\ file = prevFile
        /\ core.table.next_UID = loaded.table.next_UID
        /\ core.tags.next_UID = loaded.tags.next_UID
====
